---- MODULE Spec2Model ----
(***************************************************************************)
(* ABM Reporter: the data aggregation service                              *)
(* (backend/app/services/aggregator.py).                                   *)
(*                                                                         *)
(* The specifications of this module share its variables:                  *)
(*   Spec         - ABMDataAggregator as a state machine: the cache, the   *)
(*                  clock, aggregate_account_data, its four provider       *)
(*                  fetches, invalidate_cache.                             *)
(*   SpecRace     - two overlapping aggregate_account_data coroutines.     *)
(*   SpecFetch    - one aggregation under every set of failing providers.  *)
(*   SpecMerge    - _merge_account_data run pass by pass, record by        *)
(*                  record, over bounded provider datasets.                *)
(*   SpecPipeline - get_opportunity_summary over a bounded Opportunity     *)
(*                  table, followed by the merge.                          *)
(*   SpecQuery    - filter_accounts and the account routes on an           *)
(*                  aggregated list.                                       *)
(*   SpecRange    - aggregate_account_data called with and without a      *)
(*                  date range.                                            *)
(*                                                                         *)
(* Text is a sequence of one-character strings, so that str.lower,         *)
(* str.replace and str.split are computed and not assumed.  None is the    *)
(* one-element sequence NULL, a missing dict key is ABSENT; NullInt is     *)
(* None where the field is numeric.                                        *)
(***************************************************************************)
EXTENDS Integers, Sequences, FiniteSets, TLC

\* ------------------------------------------------------------------------
\* Text helpers (Python str methods)
\* ------------------------------------------------------------------------

NULL == <<"<None>">>

ABSENT == <<"<absent>">>

NullInt == 0 - 1

NullId == "None"

UpperAlpha == <<"A","B","C","D","E","F","G","H","I","J","K","L","M",
                "N","O","P","Q","R","S","T","U","V","W","X","Y","Z">>

LowerAlpha == <<"a","b","c","d","e","f","g","h","i","j","k","l","m",
                "n","o","p","q","r","s","t","u","v","w","x","y","z">>

\* one character of str.lower()
LowerChar(c) ==
    IF \E i \in 1..Len(UpperAlpha) : UpperAlpha[i] = c
    THEN LowerAlpha[CHOOSE i \in 1..Len(UpperAlpha) : UpperAlpha[i] = c]
    ELSE c

\* str.lower()
Lower(s) == [i \in 1..Len(s) |-> LowerChar(s[i])]

\* s[i:] starts with pat
StartsWithAt(s, i, pat) ==
    /\ i + Len(pat) - 1 <= Len(s)
    /\ \A j \in 1..Len(pat) : s[i + j - 1] = pat[j]

\* str.replace(pat, ''): every non-overlapping occurrence, left to right
RECURSIVE RemoveAllFrom(_, _, _)
RemoveAllFrom(s, i, pat) ==
    IF i > Len(s) THEN <<>>
    ELSE IF StartsWithAt(s, i, pat) THEN RemoveAllFrom(s, i + Len(pat), pat)
    ELSE <<s[i]>> \o RemoveAllFrom(s, i + 1, pat)

RemoveAll(s, pat) == RemoveAllFrom(s, 1, pat)

\* str.split(sep)[0]: the text before the first sep (all of s if none)
BeforeFirst(s, sep) ==
    IF \E i \in 1..Len(s) : s[i] = sep
    THEN SubSeq(s, 1, (CHOOSE i \in 1..Len(s) :
                          /\ s[i] = sep
                          /\ \A j \in 1..(i - 1) : s[j] # sep) - 1)
    ELSE s

\* str.split(sep)[-1]: the text after the last sep (all of s if none)
AfterLast(s, sep) ==
    IF \E i \in 1..Len(s) : s[i] = sep
    THEN SubSeq(s, (CHOOSE i \in 1..Len(s) :
                          /\ s[i] = sep
                          /\ \A j \in (i + 1)..Len(s) : s[j] # sep) + 1, Len(s))
    ELSE s

HttpPrefix == <<"h","t","t","p",":","/","/">>

HttpsPrefix == <<"h","t","t","p","s",":","/","/">>

WwwPrefix == <<"w","w","w",".">>

\* website.replace('http://','').replace('https://','').replace('www.','').split('/')[0]
ExtractDomain(website) ==
    BeforeFirst(RemoveAll(RemoveAll(RemoveAll(website, HttpPrefix), HttpsPrefix), WwwPrefix), "/")

Unknown == <<"U","n","k","n","o","w","n">>

\* dict.get(key, default) on a text field that may be missing or None
GetText(v, default) == IF v = ABSENT THEN default ELSE v

\* Python truthiness of an optional text: None and '' are falsy
Truthy(v) == v # NULL /\ v # ABSENT /\ v # <<>>

\* dict.get(k, default) on a mapping modelled as a function
GetOr(f, k, default) == IF k \in DOMAIN f THEN f[k] ELSE default

\* ------------------------------------------------------------------------
\* _merge_account_data (aggregator.py:164-303)
\* accounts_map is a Python dict: insertion-ordered, assignment to an
\* existing key keeps the key's position.  It is a sequence of
\* [key, account] entries here.
\* ------------------------------------------------------------------------

NoError == "none"

\* the empty dict {} / the empty list []
EmptyMap == <<>>

KeyIndex(map, k) ==
    IF \E i \in 1..Len(map) : map[i].key = k
    THEN CHOOSE i \in 1..Len(map) : map[i].key = k
    ELSE 0

HasKey(map, k) == KeyIndex(map, k) # 0

\* accounts_map[key] = value
MapPut(map, k, acct) ==
    IF HasKey(map, k)
    THEN [map EXCEPT ![KeyIndex(map, k)] = [key |-> k, account |-> acct]]
    ELSE Append(map, [key |-> k, account |-> acct])

\* list(accounts_map.values())
MapValues(map) == [i \in 1..Len(map) |-> map[i].account]

InList(x, list) == \E i \in 1..Len(list) : list[i] = x

\* lines 183-186: the domains list seeded from the CRM website
SfdcDomains(website) ==
    IF Truthy(website) THEN <<ExtractDomain(website)>> ELSE <<>>

\* opp_data.get(field, 0) where opp_data is the account's summary or {}
OppField(sfdc_data, account_id, field) ==
    IF account_id \in DOMAIN sfdc_data.opportunity_summary
    THEN sfdc_data.opportunity_summary[account_id][field]
    ELSE 0

\* lines 195-214: the AccountEngagement built for one Salesforce account
SfdcAccountEngagement(account, sfdc_data) ==
    LET sfdc_contacts == GetOr(sfdc_data.contact_counts, account.Id, 0)
    IN  [ account_name |-> GetText(account.Name, Unknown),
          domains |-> SfdcDomains(GetText(account.Website, <<>>)),
          sfdc_contacts |-> sfdc_contacts,
          hubspot_contacts |-> 0,
          total_contacts |-> sfdc_contacts,
          linkedin_organic_impressions |-> 0,
          linkedin_ad_impressions |-> 0,
          linkedin_total_impressions |-> 0,
          website_sessions |-> 0,
          website_page_views |-> 0,
          form_submissions |-> 0,
          current_opportunities |-> OppField(sfdc_data, account.Id, "open_opps")
                                    + OppField(sfdc_data, account.Id, "closed_won")
                                    + OppField(sfdc_data, account.Id, "closed_lost"),
          closed_won |-> OppField(sfdc_data, account.Id, "closed_won"),
          closed_lost |-> OppField(sfdc_data, account.Id, "closed_lost"),
          open_opportunities |-> OppField(sfdc_data, account.Id, "open_opps"),
          pipeline_value |-> OppField(sfdc_data, account.Id, "pipeline_value"),
          industry |-> GetText(account.Industry, NULL),
          employee_count |-> account.NumberOfEmployees,
          annual_revenue |-> account.AnnualRevenue,
          intent_score |-> NullInt ]

\* lines 177-214, one iteration: name.lower() raises on a None name
ProcessSfdcAccount(st, account, sfdc_data) ==
    IF st.error # NoError THEN st
    ELSE IF GetText(account.Name, Unknown) = NULL
    THEN [st EXCEPT !.error = "AttributeError"]
    ELSE [st EXCEPT !.map = MapPut(st.map, Lower(GetText(account.Name, Unknown)),
                                   SfdcAccountEngagement(account, sfdc_data))]

\* int(x or 0) / float(x or 0) on a numeric property that may be None
NumOrZero(v) == IF v = NullInt THEN 0 ELSE v

\* lines 230-249: the AccountEngagement built for a HubSpot-only company
HubspotAccountEngagement(props) ==
    [ account_name |-> GetText(props.name, Unknown),
      domains |-> IF Truthy(GetText(props.domain, <<>>))
                  THEN <<GetText(props.domain, <<>>)>> ELSE <<>>,
      sfdc_contacts |-> 0,
      hubspot_contacts |-> 0,
      total_contacts |-> 0,
      linkedin_organic_impressions |-> 0,
      linkedin_ad_impressions |-> 0,
      linkedin_total_impressions |-> 0,
      website_sessions |-> 0,
      website_page_views |-> 0,
      form_submissions |-> 0,
      current_opportunities |-> 0,
      closed_won |-> 0,
      closed_lost |-> 0,
      open_opportunities |-> 0,
      pipeline_value |-> 0,
      industry |-> GetText(props.industry, NULL),
      employee_count |-> NumOrZero(props.numberofemployees),
      annual_revenue |-> NumOrZero(props.annualrevenue),
      intent_score |-> NullInt ]

\* HubspotUpsert that creates an account for every company, known key or not
HubspotUpsertAlwaysCreates(map, key, props) ==
    Append(map, [key |-> key, account |-> HubspotAccountEngagement(props)])

\* HubspotUpsert appending the company's domain without looking for it first
HubspotUpsertAppendsAlways(map, key, props) ==
    LET domain == GetText(props.domain, <<>>)
        i == KeyIndex(map, key)
    IN  IF HasKey(map, key)
        THEN IF Truthy(domain)
             THEN [map EXCEPT ![i].account.domains = Append(@, domain)]
             ELSE map
        ELSE Append(map, [key |-> key, account |-> HubspotAccountEngagement(props)])

\* lines 224-249: update the existing account's domains or create the account
HubspotUpsert(map, key, props) ==
    LET domain == GetText(props.domain, <<>>)
        i == KeyIndex(map, key)
    IN  IF HasKey(map, key)
        THEN IF Truthy(domain) /\ ~InList(domain, map[i].account.domains)
             THEN [map EXCEPT ![i].account.domains = Append(@, domain)]
             ELSE map
        ELSE Append(map, [key |-> key, account |-> HubspotAccountEngagement(props)])

\* HubspotContactsUpdate adding to the running total instead of recomputing it
HubspotContactsUpdateAccumulating(acct, hs_contacts) ==
    [acct EXCEPT !.hubspot_contacts = hs_contacts,
                 !.total_contacts = acct.total_contacts + hs_contacts]

\* lines 252-255: set the HubSpot contact count and recompute the total
HubspotContactsUpdate(acct, hs_contacts) ==
    [acct EXCEPT !.hubspot_contacts = hs_contacts,
                 !.total_contacts = acct.sfdc_contacts + hs_contacts]

\* lines 217-255, one iteration
ProcessHubspotCompany(st, company, hubspot_data) ==
    IF st.error # NoError THEN st
    ELSE IF GetText(company.name, Unknown) = NULL
    THEN [st EXCEPT !.error = "AttributeError"]
    ELSE LET key == Lower(GetText(company.name, Unknown))
             m1 == HubspotUpsert(st.map, key, company)
             i == KeyIndex(m1, key)
             hs_contacts == GetOr(hubspot_data.contact_counts, company.id, 0)
         IN  [st EXCEPT !.map =
                 [m1 EXCEPT ![i].account = HubspotContactsUpdate(m1[i].account, hs_contacts)]]

\* lines 258-263: submissions bucketed by the text after the last '@'
SubmissionsByDomain(subs) ==
    [d \in {AfterLast(subs[i], "@") : i \in {j \in 1..Len(subs) : Truthy(subs[j])}} |->
        Cardinality({i \in 1..Len(subs) : Truthy(subs[i]) /\ AfterLast(subs[i], "@") = d})]

\* SumSubmissions leaving the loop at the first domain that has submissions
RECURSIVE SumSubmissionsFirstDomainOnly(_, _, _)
SumSubmissionsFirstDomainOnly(domains, i, by_domain) ==
    IF i > Len(domains) THEN 0
    ELSE IF domains[i] \in DOMAIN by_domain THEN by_domain[domains[i]]
         ELSE SumSubmissionsFirstDomainOnly(domains, i + 1, by_domain)

\* lines 267-269: the bucket of every domain of the account is added
RECURSIVE SumSubmissions(_, _, _)
SumSubmissions(domains, i, by_domain) ==
    IF i > Len(domains) THEN 0
    ELSE (IF domains[i] \in DOMAIN by_domain THEN by_domain[domains[i]] ELSE 0)
         + SumSubmissions(domains, i + 1, by_domain)

\* lines 266-269
ProcessFormSubmissions(st, hubspot_data) ==
    IF st.error # NoError THEN st
    ELSE LET by_domain == SubmissionsByDomain(hubspot_data.form_submissions)
         IN  [st EXCEPT !.map = [i \in 1..Len(st.map) |->
                 [st.map[i] EXCEPT !.account.form_submissions =
                     @ + SumSubmissions(st.map[i].account.domains, 1, by_domain)]]]

\* the loop of lines 273-279 without its break: the last domain found wins
LastSessionDomain(domains, sessions_data) ==
    IF \E i \in 1..Len(domains) : domains[i] \in DOMAIN sessions_data
    THEN CHOOSE i \in 1..Len(domains) :
            /\ domains[i] \in DOMAIN sessions_data
            /\ \A j \in (i + 1)..Len(domains) : domains[j] \notin DOMAIN sessions_data
    ELSE 0

\* index of the first domain of the list that is a key of the session map, 0 if none
FirstSessionDomain(domains, sessions_data) ==
    IF \E i \in 1..Len(domains) : domains[i] \in DOMAIN sessions_data
    THEN CHOOSE i \in 1..Len(domains) :
            /\ domains[i] \in DOMAIN sessions_data
            /\ \A j \in 1..(i - 1) : domains[j] \notin DOMAIN sessions_data
    ELSE 0

\* lines 272-279
ProcessSessions(st, factors_data) ==
    IF st.error # NoError THEN st
    ELSE [st EXCEPT !.map = [i \in 1..Len(st.map) |->
            LET ds == st.map[i].account.domains
                k == FirstSessionDomain(ds, factors_data.sessions)
            IN  IF k = 0 THEN st.map[i]
                ELSE [st.map[i] EXCEPT
                        !.account.website_sessions = factors_data.sessions[ds[k]].sessions,
                        !.account.website_page_views = factors_data.sessions[ds[k]].page_views]]]

RECURSIVE SumSeq(_, _)
SumSeq(s, i) == IF i > Len(s) THEN 0 ELSE s[i] + SumSeq(s, i + 1)

\* lines 287-292: the org-level organic total (computed, never distributed)
TotalOrganicImpressions(linkedin_data) == SumSeq(linkedin_data.organic_stats, 1)

\* lines 294-295: the org-level ad total (computed, never distributed)
TotalAdImpressions(linkedin_data) == SumSeq(linkedin_data.ad_analytics, 1)

\* LinkedinTotal taking the org-level totals instead of the account's own fields
LinkedinTotalOrgLevel(acct, linkedin_data) ==
    TotalOrganicImpressions(linkedin_data) + TotalAdImpressions(linkedin_data)

\* lines 299-301
LinkedinTotal(acct, linkedin_data) ==
    acct.linkedin_organic_impressions + acct.linkedin_ad_impressions

\* ProcessLinkedin writing the org-level totals onto every account
ProcessLinkedinDistributing(st, linkedin_data) ==
    IF st.error # NoError THEN st
    ELSE [st EXCEPT !.map = [i \in 1..Len(st.map) |->
            [st.map[i] EXCEPT
                !.account.linkedin_organic_impressions = TotalOrganicImpressions(linkedin_data),
                !.account.linkedin_ad_impressions = TotalAdImpressions(linkedin_data),
                !.account.linkedin_total_impressions =
                    TotalOrganicImpressions(linkedin_data) + TotalAdImpressions(linkedin_data)]]]

\* lines 283-301
ProcessLinkedin(st, linkedin_data) ==
    IF st.error # NoError THEN st
    ELSE [st EXCEPT !.map = [i \in 1..Len(st.map) |->
            [st.map[i] EXCEPT !.account.linkedin_total_impressions =
                LinkedinTotal(st.map[i].account, linkedin_data)]]]

RECURSIVE FoldSfdc(_, _, _)
FoldSfdc(st, i, sfdc_data) ==
    IF i > Len(sfdc_data.accounts) THEN st
    ELSE FoldSfdc(ProcessSfdcAccount(st, sfdc_data.accounts[i], sfdc_data), i + 1, sfdc_data)

RECURSIVE FoldHubspot(_, _, _)
FoldHubspot(st, i, hubspot_data) ==
    IF i > Len(hubspot_data.companies) THEN st
    ELSE FoldHubspot(ProcessHubspotCompany(st, hubspot_data.companies[i], hubspot_data),
                     i + 1, hubspot_data)

EmptyMergeState == [map |-> <<>>, error |-> NoError]

\* _merge_account_data: [error, accounts]; accounts is the returned list
MergeAccountData(sfdc_data, hubspot_data, linkedin_data, factors_data) ==
    LET s1 == FoldSfdc(EmptyMergeState, 1, sfdc_data)
        s2 == FoldHubspot(s1, 1, hubspot_data)
        s3 == ProcessFormSubmissions(s2, hubspot_data)
        s4 == ProcessSessions(s3, factors_data)
        s5 == ProcessLinkedin(s4, linkedin_data)
    IN  [error |-> s5.error,
         accounts |-> IF s5.error = NoError THEN MapValues(s5.map) ELSE <<>>]

\* ------------------------------------------------------------------------
\* Provider data used by both specifications
\* ------------------------------------------------------------------------

AcmeName == <<"A","c","m","e">>

AcmeUpperName == <<"A","C","M","E">>

AcmeLowerName == <<"a","c","m","e">>

WidName == <<"W","i","d">>

TechIndustry == <<"T","e","c","h">>

RetailIndustry == <<"R","e","t">>

AcmeWebsite == <<"h","t","t","p","s",":","/","/","w","w","w",".","a",".","c","o","/","h">>

WidWebsite == <<"h","t","t","p",":","/","/","w",".","i","o">>

DomACo == <<"a",".","c","o">>

DomAIo == <<"a",".","i","o">>

DomWIo == <<"w",".","i","o">>

MailJaneACo == <<"j","@","a",".","c","o">>

MailKimAIo == <<"k","@","a",".","i","o">>

MailAtAtACo == <<"x","@","y","@","a",".","c","o">>

\* Salesforce Account records (salesforce.py:47-53: Id, Name, Website, Industry,
\* NumberOfEmployees, AnnualRevenue)
SfdcAcme == [Id |-> "001", Name |-> AcmeName, Website |-> AcmeWebsite,
             Industry |-> TechIndustry, NumberOfEmployees |-> 50, AnnualRevenue |-> 9]

SfdcAcmeUpper == [Id |-> "002", Name |-> AcmeUpperName, Website |-> NULL,
                  Industry |-> NULL, NumberOfEmployees |-> NullInt, AnnualRevenue |-> NullInt]

SfdcWid == [Id |-> "003", Name |-> WidName, Website |-> WidWebsite,
            Industry |-> RetailIndustry, NumberOfEmployees |-> 7, AnnualRevenue |-> NullInt]

SfdcNoName == [Id |-> "004", Name |-> NULL, Website |-> NULL,
               Industry |-> NULL, NumberOfEmployees |-> NullInt, AnnualRevenue |-> NullInt]

SfdcAbsentName == [Id |-> NullId, Name |-> ABSENT, Website |-> ABSENT,
                   Industry |-> ABSENT, NumberOfEmployees |-> NullInt, AnnualRevenue |-> NullInt]

SfdcContactCounts == ("001" :> 2) @@ ("002" :> 3) @@ ("004" :> 1)

SfdcOppSummary ==
    ("001" :> [open_opps |-> 1, pipeline_value |-> 100, closed_won |-> 1, closed_lost |-> 0])
    @@ ("003" :> [open_opps |-> 0, pipeline_value |-> 0, closed_won |-> 0, closed_lost |-> 2])

\* HubSpot company records (hubspot.py:66: name, domain, industry,
\* numberofemployees, annualrevenue), properties flattened
HubAcme == [id |-> "h1", name |-> AcmeName, domain |-> DomAIo,
            industry |-> RetailIndustry, numberofemployees |-> 60, annualrevenue |-> 8]

HubAcmeLower == [id |-> "h2", name |-> AcmeLowerName, domain |-> DomACo,
                 industry |-> NULL, numberofemployees |-> NullInt, annualrevenue |-> NullInt]

HubWid == [id |-> "h3", name |-> WidName, domain |-> NULL,
           industry |-> ABSENT, numberofemployees |-> NullInt, annualrevenue |-> 4]

HubNoName == [id |-> "h4", name |-> NULL, domain |-> ABSENT,
              industry |-> NULL, numberofemployees |-> NullInt, annualrevenue |-> NullInt]

HubContactCounts == ("h1" :> 4) @@ ("h2" :> 1)

SessionsACo == (DomACo :> [sessions |-> 5, page_views |-> 9])

SessionsAIoWIo == (DomAIo :> [sessions |-> 3, page_views |-> 4])
                  @@ (DomWIo :> [sessions |-> 1, page_views |-> 1])

\* ------------------------------------------------------------------------
\* Provider boundary (aggregator.py:41-101, 129-146)
\* ------------------------------------------------------------------------

Providers == {"salesforce", "hubspot", "linkedin", "factors"}

\* the dict each _fetch_* returns from its except branch, and the one
\* aggregate_account_data substitutes for an exception (lines 55/137, 73/140,
\* 87/143, 101/146)
EmptyDefault(p) ==
    CASE p = "salesforce" -> [accounts |-> <<>>, contact_counts |-> EmptyMap,
                              opportunity_summary |-> EmptyMap]
      [] p = "hubspot"    -> [companies |-> <<>>, contact_counts |-> EmptyMap,
                              forms |-> <<>>, form_submissions |-> <<>>]
      [] p = "linkedin"   -> [organic_stats |-> <<>>, ad_analytics |-> <<>>]
      [] p = "factors"    -> [identified_accounts |-> <<>>, sessions |-> EmptyMap]

\* what the four provider clients would return: sample provider universes
Worlds == <<
    \* ordinary data, one company known to both CRM and HubSpot
    [salesforce |-> [accounts |-> <<SfdcAcme, SfdcWid>>, contact_counts |-> SfdcContactCounts,
                     opportunity_summary |-> SfdcOppSummary],
     hubspot    |-> [companies |-> <<HubAcme>>, contact_counts |-> HubContactCounts,
                     forms |-> <<>>, form_submissions |-> <<MailJaneACo, MailKimAIo>>],
     linkedin   |-> [organic_stats |-> <<10, 5>>, ad_analytics |-> <<7>>],
     factors    |-> [identified_accounts |-> <<>>, sessions |-> SessionsACo]],
    \* a HubSpot company whose name property is null
    [salesforce |-> [accounts |-> <<SfdcAcme>>, contact_counts |-> SfdcContactCounts,
                     opportunity_summary |-> SfdcOppSummary],
     hubspot    |-> [companies |-> <<HubAcmeLower, HubNoName>>, contact_counts |-> HubContactCounts,
                     forms |-> <<>>, form_submissions |-> <<MailJaneACo>>],
     linkedin   |-> [organic_stats |-> <<>>, ad_analytics |-> <<3>>],
     factors    |-> [identified_accounts |-> <<>>, sessions |-> SessionsAIoWIo]]
>>

\* FetchWrapper with an except branch that hands on what the client had
FetchWrapperKeepsData(p, raised, data) == [exc |-> FALSE, data |-> data]

\* _fetch_salesforce_data .. _fetch_factors_data: the try body returns the
\* client data, the except branch returns the empty default; never raises
FetchWrapper(p, raised, data) ==
    [exc |-> FALSE, data |-> IF raised THEN EmptyDefault(p) ELSE data]

\* lines 135-146: an Exception returned by gather is replaced by the default
HandleGatherResult(p, r) == IF r.exc THEN EmptyDefault(p) ELSE r.data

\* ------------------------------------------------------------------------
\* ABMDataAggregator state (aggregator.py:24-33)
\* ------------------------------------------------------------------------

\* self._cache_ttl = timedelta(minutes=5); the clock counts minutes
CacheTtl == 5

\* the clock stops at MaxTime
MaxTime == 6

\* at most MaxRuns fetch-and-merge runs start in one behaviour
MaxRuns == 2

\* coroutines that may run aggregate_account_data at the same time
Calls == {"A", "B"}

\* self._cache_timestamp = None
NoTimestamp == 0 - 1

\* start_date / end_date not given
NoDates == [start_date |-> NullInt, end_date |-> NullInt]

\* timedelta(days=30); dates are counted in days
ThirtyDays == 30

\* the day a minute of the clock falls on
Today(utcnow) == utcnow \div 1440

\* lines 118-121: end_date defaults to utcnow(), start_date to end_date - 30 days
EffectiveDates(dates, utcnow) ==
    LET end_date == IF dates.end_date = NullInt THEN Today(utcnow) ELSE dates.end_date
    IN  [start_date |-> IF dates.start_date = NullInt THEN end_date - ThirtyDays
                        ELSE dates.start_date,
         end_date |-> end_date]

NoResult == [accounts |-> <<>>, total_count |-> 0, last_synced |-> NoTimestamp, oid |-> 0,
             fetched_for |-> NoDates, overtaken |-> FALSE]

\* self._cache = {}
EmptyCache == [has_aggregated |-> FALSE, aggregated |-> NoResult]

NoTaskResults == [p \in Providers |-> [exc |-> FALSE, data |-> EmptyDefault(p)]]

IdleCall == [pc |-> "idle", force |-> FALSE,
             status |-> [p \in Providers |-> "none"],
             task_result |-> NoTaskResults,
             run |-> 0, saw_valid |-> FALSE, dates |-> NoDates, overtaken |-> FALSE]

NoReturn == [force |-> FALSE, path |-> "none", outcome |-> "none",
             result |-> NoResult,
             status |-> [p \in Providers |-> "none"],
             handed |-> [p \in Providers |-> EmptyDefault(p)],
             saw_valid |-> FALSE, saw_entry |-> FALSE, saw_age |-> NoTimestamp,
             after_invalidate |-> FALSE, asked |-> NoDates]

VARIABLES
    now,              \* datetime.utcnow(), in minutes
    cache,            \* self._cache
    cache_timestamp,  \* self._cache_timestamp
    call,             \* per coroutine: position in aggregate_account_data and its locals;
                      \* history: whether invalidate_cache ran while it was fetching
    runs,             \* fetch-and-merge runs started so far (object identity of results)
    world,            \* which element of Worlds the provider clients return
    outage,           \* the providers whose client calls raise at present
    last_return,      \* history: the latest return (or raise) of aggregate_account_data
    served,           \* history: the latest two calls made without force_refresh inside
                      \* the TTL window of a cached entry, since the last invalidate_cache:
                      \* what each returned, whether it fetched, whether it fell inside
                      \* the TTL window of the result the call before it returned, and
                      \* whether an aggregation wrote the cache after it
    invalidated,      \* history: invalidate_cache ran and no call was made since
    m_in,             \* _merge_account_data: its four arguments
    m_pc,             \* _merge_account_data: the pass it is in
    m_i,              \* _merge_account_data: index of the next record of the pass
    m_st,             \* _merge_account_data: accounts_map and the pending exception
    m_out,            \* _merge_account_data: the returned list
    opportunities,    \* the Opportunity records of the Salesforce org
    q_accounts,       \* all_data.accounts: the aggregated list a query works on
    q_request,        \* the query made on it: which operation, with which arguments
    q_response        \* what the query returned

mergeVars == <<m_in, m_pc, m_i, m_st, m_out>>

crmVars == <<opportunities>>

queryVars == <<q_accounts, q_request, q_response>>

vars == <<now, cache, cache_timestamp, call, runs, world, outage, last_return, served,
          invalidated, m_in, m_pc, m_i, m_st, m_out, opportunities, q_accounts, q_request,
          q_response>>

\* _is_cache_valid with an inclusive comparison
IsCacheValidInclusive ==
    IF cache_timestamp = NoTimestamp THEN FALSE
    ELSE now - cache_timestamp <= CacheTtl

\* _is_cache_valid (lines 35-39)
IsCacheValid ==
    IF cache_timestamp = NoTimestamp THEN FALSE
    ELSE now - cache_timestamp < CacheTtl

\* ServeFromCache without the force_refresh test
ServeFromCacheIgnoringForce(force) == IsCacheValid /\ cache.has_aggregated

\* line 113: the condition of the early return
ServeFromCache(force) == ~force /\ IsCacheValid /\ cache.has_aggregated

\* an early return that also asks for the entry to be of the dates asked for
EarlyReturnKeyedByDates(force, dates) ==
    /\ ServeFromCache(force)
    /\ cache.aggregated.fetched_for = EffectiveDates(dates, now)

\* line 113 as aggregate_account_data evaluates it: start_date and end_date
\* are not looked at
EarlyReturn(force, dates) == ServeFromCache(force)

\* HitResult re-stamping the cached AccountList on every hit
HitResultRestamped == [cache.aggregated EXCEPT !.last_synced = now]

\* line 115: return self._cache['aggregated']
HitResult == cache.aggregated

\* JoinReady of a gather that gives up on the first failed fetch
JoinReadyOnFirstFailure(c) ==
    \/ \A p \in Providers : call[c].status[p] # "pending"
    \/ \E p \in Providers : call[c].status[p] = "raised"

\* asyncio.gather(...) resumes the coroutine once every awaitable has finished
JoinReady(c) == \A p \in Providers : call[c].status[p] # "pending"

\* WriteCache that keeps an entry already present (dict.setdefault)
WriteCacheIfAbsent(result) ==
    IF cache.has_aggregated THEN cache
    ELSE [has_aggregated |-> TRUE, aggregated |-> result]

\* line 158: self._cache['aggregated'] = result
WriteCache(result) == [has_aggregated |-> TRUE, aggregated |-> result]

\* age of the cached entry as a caller observes it
ObservedAge == IF cache_timestamp = NoTimestamp THEN NoTimestamp ELSE now - cache_timestamp

InWindow == cache.has_aggregated /\ cache_timestamp # NoTimestamp
            /\ now - cache_timestamp < CacheTtl

PushServed(rec) == IF Len(served) = 2 THEN <<served[2], rec>> ELSE Append(served, rec)

MergeIdle ==
    /\ m_in = [salesforce |-> EmptyDefault("salesforce"), hubspot |-> EmptyDefault("hubspot"),
               linkedin |-> EmptyDefault("linkedin"), factors |-> EmptyDefault("factors")]
    /\ m_pc = "off"
    /\ m_i = 0
    /\ m_st = EmptyMergeState
    /\ m_out = <<>>

\* no query is being looked at
QueryIdle ==
    /\ q_accounts = <<>>
    /\ q_request = [kind |-> "none"]
    /\ q_response = [kind |-> "none"]

\* the org's opportunities are not looked at
CrmIdle == opportunities = <<>>

\* __init__ (lines 24-33): empty cache, no timestamp, no call in progress
Constructed ==
    /\ now = 0
    /\ cache = EmptyCache
    /\ cache_timestamp = NoTimestamp
    /\ call = [c \in Calls |-> IdleCall]
    /\ runs = 0
    /\ last_return = NoReturn
    /\ served = <<>>
    /\ invalidated = FALSE

\* outages considered where the clock or a second coroutine is modelled as well
FewOutages == {{}, {"hubspot"}}

Init ==
    /\ Constructed
    /\ world \in DOMAIN Worlds
    /\ outage \in FewOutages
    /\ MergeIdle
    /\ CrmIdle
    /\ QueryIdle

InitFetch ==
    /\ Constructed
    /\ world \in DOMAIN Worlds
    /\ outage \in SUBSET Providers
    /\ MergeIdle
    /\ CrmIdle
    /\ QueryIdle

\* aggregate_account_data up to its first suspension point (lines 112-132):
\* either the early return of the cached entry, or the four fetch coroutines
\* are created and the caller awaits gather
AggregateAccountData(c, force, dates) ==
    /\ call[c].pc = "idle"
    /\ IF EarlyReturn(force, dates)
       THEN /\ last_return' = [NoReturn EXCEPT
                                 !.force = force, !.path = "hit",
                                 !.outcome = "returned", !.result = HitResult,
                                 !.saw_valid = InWindow,
                                 !.saw_entry = cache.has_aggregated, !.saw_age = ObservedAge,
                                 !.after_invalidate = invalidated, !.asked = dates]
            /\ UNCHANGED <<call, runs>>
       ELSE /\ runs < MaxRuns
            /\ runs' = runs + 1
            /\ call' = [call EXCEPT ![c] =
                          [IdleCall EXCEPT
                             !.pc = "gather", !.force = force,
                             !.status = [p \in Providers |-> "pending"],
                             !.run = runs + 1,
                             !.saw_valid = InWindow,
                             !.dates = EffectiveDates(dates, now)]]
            /\ UNCHANGED last_return
    /\ served' = IF ~force /\ InWindow
                 THEN PushServed([result |-> IF EarlyReturn(force, dates) THEN HitResult ELSE NoResult,
                                  fetched |-> ~EarlyReturn(force, dates),
                                  same_window |->
                                      /\ served # <<>>
                                      /\ now - served[Len(served)].result.last_synced < CacheTtl,
                                  overwritten |-> FALSE])
                 ELSE served
    /\ invalidated' = FALSE
    /\ UNCHANGED <<now, cache, cache_timestamp, world, outage>>
    /\ UNCHANGED <<mergeVars, crmVars, queryVars>>

\* aggregate_account_data as the routes call it: no start_date, no end_date
\* (routers/accounts.py:60, 100, 193, 209)
Start(c, force) == AggregateAccountData(c, force, NoDates)

\* one _fetch_* coroutine finishes with the client's data (the try body)
FetchReturn(c, p) ==
    /\ call[c].pc = "gather"
    /\ call[c].status[p] = "pending"
    /\ p \notin outage
    /\ call' = [call EXCEPT ![c].status[p] = "returned",
                            ![c].task_result[p] = FetchWrapper(p, FALSE, Worlds[world][p])]
    /\ UNCHANGED <<now, cache, cache_timestamp, runs, world, outage, last_return, served,
                   invalidated>>
    /\ UNCHANGED <<mergeVars, crmVars, queryVars>>

\* one _fetch_* coroutine finishes through its except branch: a client call raised
FetchRaise(c, p) ==
    /\ call[c].pc = "gather"
    /\ call[c].status[p] = "pending"
    /\ p \in outage
    /\ call' = [call EXCEPT ![c].status[p] = "raised",
                            ![c].task_result[p] = FetchWrapper(p, TRUE, Worlds[world][p])]
    /\ UNCHANGED <<now, cache, cache_timestamp, runs, world, outage, last_return, served,
                   invalidated>>
    /\ UNCHANGED <<mergeVars, crmVars, queryVars>>

\* lines 134-162, run without suspension once gather has resumed the caller:
\* substitute defaults, merge, build the AccountList, update the cache, return;
\* an exception raised by the merge propagates to the caller before line 158
Complete(c) ==
    /\ call[c].pc = "gather"
    /\ JoinReady(c)
    /\ LET handed == [p \in Providers |-> HandleGatherResult(p, call[c].task_result[p])]
           merged == MergeAccountData(handed["salesforce"], handed["hubspot"],
                                      handed["linkedin"], handed["factors"])
           result == [accounts |-> merged.accounts, total_count |-> Len(merged.accounts),
                      last_synced |-> now, oid |-> call[c].run,
                      fetched_for |-> call[c].dates, overtaken |-> call[c].overtaken]
           ret == [NoReturn EXCEPT
                     !.force = call[c].force, !.path = "miss",
                     !.status = call[c].status, !.handed = handed,
                     !.saw_valid = call[c].saw_valid, !.asked = call[c].dates]
       IN  IF merged.error = NoError
           THEN /\ cache' = WriteCache(result)
                /\ cache_timestamp' = now
                /\ last_return' = [ret EXCEPT !.outcome = "returned", !.result = result]
                /\ served' = IF served = <<>> THEN served
                             ELSE [served EXCEPT ![Len(served)].overwritten = TRUE]
           ELSE /\ last_return' = [ret EXCEPT !.outcome = "raised"]
                /\ UNCHANGED <<cache, cache_timestamp, served>>
    /\ call' = [call EXCEPT ![c] = IdleCall]
    /\ UNCHANGED <<now, runs, world, outage, invalidated>>
    /\ UNCHANGED <<mergeVars, crmVars, queryVars>>

\* invalidate_cache clearing the dict and leaving the timestamp
InvalidateCacheKeepsTimestamp ==
    /\ cache' = EmptyCache
    /\ served' = <<>>
    /\ invalidated' = TRUE
    /\ call' = [c \in Calls |-> IF call[c].pc = "gather"
                                THEN [call[c] EXCEPT !.overtaken = TRUE]
                                ELSE call[c]]
    /\ UNCHANGED <<now, cache_timestamp, runs, world, outage, last_return>>
    /\ UNCHANGED <<mergeVars, crmVars, queryVars>>

\* invalidate_cache (lines 358-361)
InvalidateCache ==
    /\ cache' = EmptyCache
    /\ cache_timestamp' = NoTimestamp
    /\ served' = <<>>
    /\ invalidated' = TRUE
    /\ call' = [c \in Calls |-> IF call[c].pc = "gather"
                                THEN [call[c] EXCEPT !.overtaken = TRUE]
                                ELSE call[c]]
    /\ UNCHANGED <<now, runs, world, outage, last_return>>
    /\ UNCHANGED <<mergeVars, crmVars, queryVars>>

\* a minute passes
Tick ==
    /\ now < MaxTime
    /\ now' = now + 1
    /\ UNCHANGED <<cache, cache_timestamp, call, runs, world, outage, last_return, served,
                   invalidated>>
    /\ UNCHANGED <<mergeVars, crmVars, queryVars>>

\* one coroutine and the clock: the cache over time
Next ==
    \/ \E force \in BOOLEAN : Start("A", force)
    \/ \E p \in Providers : FetchReturn("A", p)
    \/ \E p \in Providers : FetchRaise("A", p)
    \/ Complete("A")
    \/ InvalidateCache
    \/ Tick

Spec == Init /\ [][Next]_vars

\* two coroutines interleaved at their suspension points, the clock standing still
NextRace ==
    \/ \E c \in Calls, force \in BOOLEAN : Start(c, force)
    \/ \E c \in Calls, p \in Providers : FetchReturn(c, p)
    \/ \E c \in Calls, p \in Providers : FetchRaise(c, p)
    \/ \E c \in Calls : Complete(c)
    \/ InvalidateCache

\* the race is looked at over the ordinary provider data
InitRace ==
    /\ Constructed
    /\ world = 1
    /\ outage \in FewOutages
    /\ MergeIdle
    /\ CrmIdle
    /\ QueryIdle

SpecRace == InitRace /\ [][NextRace]_vars

\* one aggregation at a time under every combination of provider outages
NextFetch ==
    \/ \E force \in BOOLEAN : Start("A", force)
    \/ \E p \in Providers : FetchReturn("A", p)
    \/ \E p \in Providers : FetchRaise("A", p)
    \/ Complete("A")
    \/ InvalidateCache

SpecFetch == InitFetch /\ [][NextFetch]_vars

\* date ranges a caller passes: none, an explicit range, an end_date alone
DateRanges == {NoDates,
               [start_date |-> 200, end_date |-> 207],
               [start_date |-> NullInt, end_date |-> 130]}

\* one caller passing date ranges without force_refresh, and the clock
NextRange ==
    \/ \E dates \in DateRanges : AggregateAccountData("A", FALSE, dates)
    \/ \E p \in Providers : FetchReturn("A", p)
    \/ Complete("A")
    \/ Tick

InitRange ==
    /\ Constructed
    /\ world = 1
    /\ outage = {}
    /\ MergeIdle
    /\ CrmIdle
    /\ QueryIdle

SpecRange == InitRange /\ [][NextRange]_vars

\* ------------------------------------------------------------------------
\* _merge_account_data pass by pass (aggregator.py:164-303)
\* ------------------------------------------------------------------------

\* longest Salesforce account list handed to the merge
MaxSfdcAccounts == 2

\* longest HubSpot company list handed to the merge
MaxHubspotCompanies == 2

BoundedSeq(S, n) == UNION {[1..k -> S] : k \in 0..n}

SfdcPool == {SfdcAcme, SfdcAcmeUpper, SfdcWid, SfdcNoName, SfdcAbsentName}

HubPool == {HubAcme, HubAcmeLower, HubWid, HubNoName}

SubmissionLists == {<<>>, <<MailJaneACo>>, <<MailJaneACo, MailKimAIo>>, <<MailAtAtACo, NULL>>}

SessionMaps == {EmptyMap, SessionsAIoWIo, SessionsACo @@ SessionsAIoWIo}

LinkedinInputs == {EmptyDefault("linkedin"),
                   [organic_stats |-> <<10, 5>>, ad_analytics |-> <<7>>]}

aggVars == <<now, cache, cache_timestamp, call, runs, world, outage, last_return, served,
             invalidated>>

\* the arguments of one _merge_account_data call
InitMerge ==
    /\ Constructed
    /\ world = 1
    /\ outage = {}
    /\ m_in \in [salesforce : [accounts : BoundedSeq(SfdcPool, MaxSfdcAccounts),
                               contact_counts : {SfdcContactCounts},
                               opportunity_summary : {SfdcOppSummary}],
                 hubspot : [companies : BoundedSeq(HubPool, MaxHubspotCompanies),
                            contact_counts : {HubContactCounts},
                            forms : {<<>>},
                            form_submissions : SubmissionLists],
                 linkedin : LinkedinInputs,
                 factors : [identified_accounts : {<<>>}, sessions : SessionMaps]]
    /\ m_pc = "sfdc"
    /\ m_i = 1
    /\ m_st = EmptyMergeState
    /\ m_out = <<>>
    /\ CrmIdle
    /\ QueryIdle

\* lines 177-214: one iteration of the Salesforce loop, or the loop's end
MergeSfdc ==
    /\ m_pc = "sfdc"
    /\ IF m_i <= Len(m_in.salesforce.accounts)
       THEN LET st == ProcessSfdcAccount(m_st, m_in.salesforce.accounts[m_i], m_in.salesforce)
            IN  /\ m_st' = st
                /\ m_i' = m_i + 1
                /\ m_pc' = IF st.error = NoError THEN "sfdc" ELSE "raised"
       ELSE /\ m_pc' = "hubspot"
            /\ m_i' = 1
            /\ UNCHANGED m_st
    /\ UNCHANGED <<m_in, m_out>>
    /\ UNCHANGED <<aggVars, crmVars, queryVars>>

\* lines 217-255: one iteration of the HubSpot loop, or the loop's end
MergeHubspot ==
    /\ m_pc = "hubspot"
    /\ IF m_i <= Len(m_in.hubspot.companies)
       THEN LET st == ProcessHubspotCompany(m_st, m_in.hubspot.companies[m_i], m_in.hubspot)
            IN  /\ m_st' = st
                /\ m_i' = m_i + 1
                /\ m_pc' = IF st.error = NoError THEN "hubspot" ELSE "raised"
       ELSE /\ m_pc' = "forms"
            /\ m_i' = 1
            /\ UNCHANGED m_st
    /\ UNCHANGED <<m_in, m_out>>
    /\ UNCHANGED <<aggVars, crmVars, queryVars>>

\* lines 258-269
MergeForms ==
    /\ m_pc = "forms"
    /\ m_st' = ProcessFormSubmissions(m_st, m_in.hubspot)
    /\ m_pc' = "sessions"
    /\ UNCHANGED <<m_in, m_i, m_out>>
    /\ UNCHANGED <<aggVars, crmVars, queryVars>>

\* lines 272-279
MergeSessions ==
    /\ m_pc = "sessions"
    /\ m_st' = ProcessSessions(m_st, m_in.factors)
    /\ m_pc' = "linkedin"
    /\ UNCHANGED <<m_in, m_i, m_out>>
    /\ UNCHANGED <<aggVars, crmVars, queryVars>>

\* lines 283-303: the LinkedIn pass and the return
MergeLinkedin ==
    /\ m_pc = "linkedin"
    /\ m_st' = ProcessLinkedin(m_st, m_in.linkedin)
    /\ m_out' = MapValues(ProcessLinkedin(m_st, m_in.linkedin).map)
    /\ m_pc' = "returned"
    /\ UNCHANGED <<m_in, m_i>>
    /\ UNCHANGED <<aggVars, crmVars, queryVars>>

NextMerge ==
    \/ MergeSfdc
    \/ MergeHubspot
    \/ MergeForms
    \/ MergeSessions
    \/ MergeLinkedin

SpecMerge == InitMerge /\ [][NextMerge]_vars

\* the stepwise run and the function used by aggregate_account_data agree
MergeStepsAgree ==
    LET whole == MergeAccountData(m_in.salesforce, m_in.hubspot, m_in.linkedin, m_in.factors)
    IN  /\ m_pc = "returned" => whole.error = NoError /\ whole.accounts = m_out
        /\ m_pc = "raised" => whole.error # NoError

\* ------------------------------------------------------------------------
\* Properties of the provider boundary (SpecFetch)
\* ------------------------------------------------------------------------

\* every field of a provider dataset is an empty list or an empty mapping
AllFieldsEmpty(d) == \A f \in DOMAIN d : d[f] = <<>>

\* a provider dataset with a record whose name is None
HasNullName(p) ==
    \/ /\ p = "salesforce"
       /\ \E i \in 1..Len(Worlds[world][p].accounts) : Worlds[world][p].accounts[i].Name = NULL
    \/ /\ p = "hubspot"
       /\ \E i \in 1..Len(Worlds[world][p].companies) : Worlds[world][p].companies[i].name = NULL

\* C1: whichever providers' fetches raised, the aggregation reached the merge with
\* the empty default for each failing provider and the client's data, unchanged, for
\* every other provider; and it ended without a result only when a provider that did
\* not fail returned the record the merge raised on, never because a fetch failed.
C1_FailedFetchesDegradeToDefaults ==
    last_return.path = "miss" =>
        /\ \A p \in Providers :
              /\ last_return.status[p] \in {"returned", "raised"}
              /\ last_return.status[p] = "raised" => AllFieldsEmpty(last_return.handed[p])
              /\ last_return.status[p] = "returned" =>
                    last_return.handed[p] = Worlds[world][p]
        /\ last_return.outcome \in {"returned", "raised"}
        /\ last_return.outcome = "raised" =>
              \E p \in Providers : last_return.status[p] = "returned" /\ HasNullName(p)

\* C1 witness: Salesforce failed, HubSpot did not, and the aggregation returned the
\* accounts merged from the HubSpot data alone
C1_Witness ==
    /\ last_return.path = "miss"
    /\ last_return.outcome = "returned"
    /\ last_return.status["salesforce"] = "raised"
    /\ last_return.status["hubspot"] = "returned"
    /\ last_return.handed["salesforce"].accounts = <<>>
    /\ last_return.handed["hubspot"].companies # <<>>
    /\ last_return.result.accounts # <<>>

\* C2: aggregate_account_data never surfaces an error to its caller
C2_AggregateNeverRaises == last_return.outcome # "raised"

\* C8: a fetch still pending can finish whatever happened to the other three, a
\* finished fetch keeps its outcome, and the caller leaves gather (and merges)
\* only when all four fetches have finished with a dataset or a failure
C8_FetchesIndependentAndJoined ==
    /\ [](\A c \in Calls : \A p \in Providers :
            (call[c].pc = "gather" /\ call[c].status[p] = "pending")
                => ENABLED (FetchReturn(c, p) \/ FetchRaise(c, p)))
    /\ [][\A c \in Calls :
            /\ \A p \in Providers :
                  (call[c].pc = "gather" /\ call'[c].pc = "gather"
                   /\ call[c].status[p] \in {"returned", "raised"})
                      => call'[c].status[p] = call[c].status[p]
            /\ (call[c].pc = "gather" /\ call'[c].pc = "idle")
                  => /\ \A p \in Providers : call[c].status[p] \in {"returned", "raised"}
                     /\ last_return'.path = "miss"
                     /\ last_return'.status = call[c].status]_vars

\* C8 witness: one fetch has failed, another has returned after it or before it, and
\* a third is still running
C8_Witness ==
    /\ call["A"].pc = "gather"
    /\ call["A"].status["salesforce"] = "raised"
    /\ call["A"].status["hubspot"] = "returned"
    /\ call["A"].status["linkedin"] = "pending"

\* ------------------------------------------------------------------------
\* Properties of the cache (Spec, SpecRace)
\* ------------------------------------------------------------------------

\* what an AccountList holds, leaving aside which object it is
Content(r) == [accounts |-> r.accounts, total_count |-> r.total_count,
               last_synced |-> r.last_synced]

\* C3 as stated: of two calls made without force_refresh with no invalidate_cache
\* between them, the second falling inside the TTL window of the aggregation the
\* first was served, the second returns what the first returned and fetches nothing
C3_Original ==
    (Len(served) = 2 /\ served[2].same_window)
        => /\ Content(served[2].result) = Content(served[1].result)
           /\ ~served[2].fetched

\* C3: of two calls made without force_refresh inside the TTL window of a cached
\* aggregation, with no invalidate_cache between them and no aggregation writing
\* the cache between them, the second returns the very AccountList the first
\* returned, and neither fetches
C3_HitsRepeatWhileCacheUnwritten ==
    (Len(served) = 2 /\ ~served[1].overwritten)
        => /\ served[2].result = served[1].result
           /\ ~served[1].fetched
           /\ ~served[2].fetched

\* C3 witness: a minute apart, two calls were served the same non-empty AccountList,
\* computed a minute before the first of them
C3_Witness ==
    /\ Len(served) = 2
    /\ ~served[1].overwritten
    /\ served[2].same_window
    /\ served[2].result = served[1].result
    /\ served[1].result.accounts # <<>>
    /\ served[1].result.last_synced = 1
    /\ now = 3
    /\ last_return.path = "hit"
    /\ last_return.saw_age = 2

\* C4: a call with force_refresh=True never takes the early return: it starts a run
\* of its own with all four fetches pending, whatever the cache holds; and when it
\* returns, all four fetches have finished and the cached entry and the timestamp
\* are those of its own result
C4_ForceRefreshRefetchesAndOverwrites ==
    [][/\ \A c \in Calls : \A force \in BOOLEAN :
            (force /\ Start(c, force))
                => /\ call'[c].pc = "gather"
                   /\ call'[c].force
                   /\ call'[c].run = runs + 1
                   /\ \A p \in Providers : call'[c].status[p] = "pending"
                   /\ last_return' = last_return
       /\ \A c \in Calls :
            (call[c].pc = "gather" /\ call[c].force /\ call'[c].pc = "idle"
             /\ last_return'.outcome = "returned")
                => /\ \A p \in Providers : call[c].status[p] \in {"returned", "raised"}
                   /\ last_return'.path = "miss"
                   /\ last_return'.result.oid = call[c].run
                   /\ cache'.has_aggregated
                   /\ cache'.aggregated = last_return'.result
                   /\ cache_timestamp' = now
                   /\ cache_timestamp' = last_return'.result.last_synced]_vars

\* C4 witness: a forced call that began while a two-minute-old entry was valid has
\* returned its own result, which is now the cached entry, stamped with the present
C4_Witness ==
    /\ last_return.path = "miss"
    /\ last_return.force
    /\ last_return.saw_valid
    /\ last_return.outcome = "returned"
    /\ last_return.result.oid = 2
    /\ last_return.result.last_synced = 2
    /\ cache.has_aggregated
    /\ cache.aggregated = last_return.result
    /\ cache_timestamp = 2
    /\ now = 2

\* C5: the first call made after invalidate_cache is never served from the cache
C5_FirstCallAfterInvalidateRecomputes ==
    last_return.after_invalidate => last_return.path # "hit"

\* C6: a call without force_refresh starts a fetch-and-merge only when there is no
\* entry or the entry's age has reached the TTL, and takes the early return only
\* when there is an entry whose age is below the TTL; a cached result returned is
\* always younger than the TTL
C6_ServedFromCacheIffYoungerThanTtl ==
    /\ [](last_return.path = "hit"
            => /\ ~last_return.force
               /\ last_return.saw_entry
               /\ last_return.saw_age >= 0
               /\ last_return.saw_age < CacheTtl)
    /\ [][\A c \in Calls :
            /\ (Start(c, FALSE) /\ call'[c].pc = "gather")
                  => \/ ~cache.has_aggregated
                     \/ cache_timestamp = NoTimestamp
                     \/ now - cache_timestamp >= CacheTtl
            /\ (Start(c, FALSE) /\ call'[c].pc = "idle")
                  => /\ cache.has_aggregated
                     /\ cache_timestamp # NoTimestamp
                     /\ now - cache_timestamp < CacheTtl
                     /\ last_return'.path = "hit"
                     /\ last_return'.result = cache.aggregated
                     /\ now - last_return'.result.last_synced < CacheTtl]_vars

\* C6 witness: an entry was served at the age of TTL - 1 and, a minute later, at the
\* age of exactly TTL, a call without force_refresh is fetching again
C6_Witness ==
    /\ last_return.path = "hit"
    /\ last_return.saw_age = CacheTtl - 1
    /\ call["A"].pc = "gather"
    /\ ~call["A"].force
    /\ ~call["A"].saw_valid
    /\ cache.has_aggregated
    /\ now - cache_timestamp = CacheTtl

\* C7: a call that finds the cache missing or expired starts a fetch-and-merge of
\* its own even while another call is in the middle of one; two runs in progress
\* are distinct runs; and every call that returns from a fetch-and-merge has had
\* all four of its own fetches finish and leaves its own result in the cache, so
\* the cache holds the result of the call that wrote last
C7_OverlappingMissesEachRecompute ==
    /\ [](\A c, d \in Calls :
            (c # d /\ call[c].pc = "gather" /\ call[d].pc = "gather")
                => call[c].run # call[d].run)
    /\ [](\A c, d \in Calls :
            (c # d /\ call[c].pc = "gather" /\ call[d].pc = "idle"
             /\ ~InWindow /\ runs < MaxRuns)
                => ENABLED (Start(d, FALSE) /\ call'[d].pc = "gather"))
    /\ [][\A c \in Calls :
            /\ (call[c].pc = "idle" /\ call'[c].pc = "gather")
                  => /\ call'[c].run = runs + 1
                     /\ \A p \in Providers : call'[c].status[p] = "pending"
                     /\ \A d \in Calls \ {c} : call'[d] = call[d]
            /\ (call[c].pc = "gather" /\ call'[c].pc = "idle"
                /\ last_return'.outcome = "returned")
                  => /\ \A p \in Providers : call[c].status[p] \in {"returned", "raised"}
                     /\ last_return'.result.oid = call[c].run
                     /\ cache'.has_aggregated
                     /\ cache'.aggregated = last_return'.result]_vars

\* C7 witness: two calls without force_refresh both found the cache empty and
\* overlapped; the one that started second has returned and then the one that
\* started first, whose result is what the cache holds
C7_Witness ==
    /\ runs = 2
    /\ \A c \in Calls : call[c].pc = "idle"
    /\ last_return.path = "miss"
    /\ last_return.outcome = "returned"
    /\ ~last_return.force
    /\ ~last_return.saw_valid
    /\ last_return.result.oid = 1
    /\ cache.has_aggregated
    /\ cache.aggregated = last_return.result
    /\ ~invalidated
    /\ served = <<>>

\* ------------------------------------------------------------------------
\* Properties of the merge (SpecMerge)
\* ------------------------------------------------------------------------

\* C9: every account of every list _merge_account_data returns has
\* total_contacts = sfdc_contacts + hubspot_contacts
C9_TotalContactsIsSum ==
    m_pc = "returned" =>
        \A i \in 1..Len(m_out) :
            m_out[i].total_contacts = m_out[i].sfdc_contacts + m_out[i].hubspot_contacts

\* C9 witness: two CRM accounts and two HubSpot companies, all four named "acme"
\* up to case, ended as one account carrying the counts of the later record of each
C9_Witness ==
    /\ m_pc = "returned"
    /\ m_in.salesforce.accounts = <<SfdcAcme, SfdcAcmeUpper>>
    /\ m_in.hubspot.companies = <<HubAcme, HubAcmeLower>>
    /\ Len(m_out) = 1
    /\ m_out[1].sfdc_contacts = 3
    /\ m_out[1].hubspot_contacts = 1
    /\ m_out[1].total_contacts = 4

\* C10: every account of every list _merge_account_data returns has
\* linkedin_total_impressions = linkedin_organic_impressions + linkedin_ad_impressions
C10_LinkedinTotalIsSum ==
    m_pc = "returned" =>
        \A i \in 1..Len(m_out) :
            m_out[i].linkedin_total_impressions =
                m_out[i].linkedin_organic_impressions + m_out[i].linkedin_ad_impressions

\* C10 witness: LinkedIn reported impressions at organisation level and the merge
\* returned accounts from both providers, each with its total recomputed from its
\* own two fields
C10_Witness ==
    /\ m_pc = "returned"
    /\ TotalOrganicImpressions(m_in.linkedin) + TotalAdImpressions(m_in.linkedin) > 0
    /\ m_in.salesforce.accounts = <<SfdcAcme>>
    /\ m_in.hubspot.companies = <<HubWid>>
    /\ Len(m_out) = 2
    /\ \A i \in 1..Len(m_out) :
          m_out[i].linkedin_total_impressions =
              m_out[i].linkedin_organic_impressions + m_out[i].linkedin_ad_impressions

\* C11: no two accounts of a list _merge_account_data returns have the same
\* lowercased name
C11_LowercasedNamesUnique ==
    m_pc = "returned" =>
        \A i, j \in 1..Len(m_out) :
            i # j => Lower(m_out[i].account_name) # Lower(m_out[j].account_name)

\* C11 witness: the CRM account ACME and the HubSpot company acme came out as one
\* record, named by the CRM and carrying the HubSpot domain and contact count
C11_Witness ==
    /\ m_pc = "returned"
    /\ m_in.salesforce.accounts = <<SfdcAcmeUpper>>
    /\ m_in.hubspot.companies = <<HubAcmeLower>>
    /\ Len(m_out) = 1
    /\ m_out[1].account_name = AcmeUpperName
    /\ m_out[1].domains = <<DomACo>>
    /\ m_out[1].sfdc_contacts = 3
    /\ m_out[1].hubspot_contacts = 1

\* C12: no step of a merge run removes a canonical key or a domain recorded for it
C12_DomainsOnlyGrow ==
    [][\A i \in 1..Len(m_st.map) :
          \E j \in 1..Len(m_st'.map) :
              /\ m_st'.map[j].key = m_st.map[i].key
              /\ \A k \in 1..Len(m_st.map[i].account.domains) :
                    InList(m_st.map[i].account.domains[k], m_st'.map[j].account.domains)]_vars

\* ------------------------------------------------------------------------
\* The Salesforce opportunity summary (integrations/salesforce.py:161-226)
\* feeding the merge
\* ------------------------------------------------------------------------

\* longest Opportunity table looked at
MaxOpportunities == 3

StageOpen == "Prospecting"

StageWon == "Closed Won"

StageLost == "Closed Lost"

\* an Opportunity row; IsClosed and IsWon are the flags Salesforce derives from
\* the stage, Amount may be null
Opportunity(id, stage, amount) ==
    [AccountId |-> id, StageName |-> stage, IsClosed |-> stage # StageOpen,
     IsWon |-> stage = StageWon, Amount |-> amount]

OppPool == {Opportunity("001", StageOpen, 100), Opportunity("001", StageOpen, 40),
            Opportunity("001", StageWon, 70), Opportunity("001", StageLost, 30),
            Opportunity("003", StageWon, 20), Opportunity("003", StageOpen, NullInt),
            Opportunity(NullId, StageOpen, 500)}

\* InOpenQuery selecting won opportunities as well
InOpenQueryAlsoWon(o) == (~o.IsClosed \/ o.IsWon) /\ o.AccountId # NullId

\* open_query: WHERE IsClosed = false AND AccountId != null
InOpenQuery(o) == ~o.IsClosed /\ o.AccountId # NullId

\* won_query: WHERE IsWon = true AND AccountId != null
InWonQuery(o) == o.IsWon /\ o.AccountId # NullId

\* lost_query: WHERE IsClosed = true AND IsWon = false AND AccountId != null
InLostQuery(o) == o.IsClosed /\ ~o.IsWon /\ o.AccountId # NullId

\* GROUP BY AccountId: the rows of one group
GroupRows(opps, rows, id) == {i \in rows : opps[i].AccountId = id}

\* the AccountId values for which a query returns a record
GroupIds(opps, rows) == {opps[i].AccountId : i \in rows}

RECURSIVE SumAmountsFrom(_, _, _)
SumAmountsFrom(opps, rows, i) ==
    IF i > Len(opps) THEN 0
    ELSE (IF i \in rows /\ opps[i].Amount # NullInt THEN opps[i].Amount ELSE 0)
         + SumAmountsFrom(opps, rows, i + 1)

\* SUM(Amount) of a group: null when no row of the group has an amount
TotalAmount(opps, rows) ==
    IF \A i \in rows : opps[i].Amount = NullInt THEN NullInt
    ELSE SumAmountsFrom(opps, rows, 1)

\* get_opportunity_summary (lines 197-223)
GetOpportunitySummary(opps) ==
    LET open == {i \in 1..Len(opps) : InOpenQuery(opps[i])}
        won  == {i \in 1..Len(opps) : InWonQuery(opps[i])}
        lost == {i \in 1..Len(opps) : InLostQuery(opps[i])}
    IN  [id \in GroupIds(opps, open) \cup GroupIds(opps, won) \cup GroupIds(opps, lost) |->
            [open_opps |-> Cardinality(GroupRows(opps, open, id)),
             pipeline_value |-> IF id \in GroupIds(opps, open)
                                THEN NumOrZero(TotalAmount(opps, GroupRows(opps, open, id)))
                                ELSE 0,
             closed_won |-> Cardinality(GroupRows(opps, won, id)),
             closed_lost |-> Cardinality(GroupRows(opps, lost, id))]]

\* an org with some opportunities; its accounts are about to be fetched and merged
InitPipeline ==
    /\ Constructed
    /\ world = 1
    /\ outage = {}
    /\ opportunities \in BoundedSeq(OppPool, MaxOpportunities)
    /\ m_in \in [salesforce : [accounts : {<<SfdcAcme, SfdcWid>>, <<SfdcWid>>},
                               contact_counts : {SfdcContactCounts},
                               opportunity_summary : {EmptyMap}],
                 hubspot : {Worlds[1].hubspot},
                 linkedin : {Worlds[1].linkedin},
                 factors : {Worlds[1].factors}]
    /\ m_pc = "query"
    /\ m_i = 0
    /\ m_st = EmptyMergeState
    /\ m_out = <<>>
    /\ QueryIdle

\* _fetch_salesforce_data, line 49: the summary the merge will be given
FetchOpportunitySummary ==
    /\ m_pc = "query"
    /\ m_in' = [m_in EXCEPT !.salesforce.opportunity_summary =
                               GetOpportunitySummary(opportunities)]
    /\ m_pc' = "sfdc"
    /\ m_i' = 1
    /\ UNCHANGED <<m_st, m_out>>
    /\ UNCHANGED <<aggVars, crmVars, queryVars>>

NextPipeline ==
    \/ FetchOpportunitySummary
    \/ MergeSfdc
    \/ MergeHubspot
    \/ MergeForms
    \/ MergeSessions
    \/ MergeLinkedin

SpecPipeline == InitPipeline /\ [][NextPipeline]_vars

\* ------------------------------------------------------------------------
\* Properties of the pipeline figures (SpecPipeline)
\* ------------------------------------------------------------------------

\* an opportunity that is neither Closed Won nor Closed Lost
IsOpenStage(o) == o.StageName \notin {StageWon, StageLost}

RECURSIVE OpenAmountOf(_, _, _)
OpenAmountOf(opps, id, i) ==
    IF i > Len(opps) THEN 0
    ELSE (IF opps[i].AccountId = id /\ IsOpenStage(opps[i]) /\ opps[i].Amount # NullInt
          THEN opps[i].Amount ELSE 0)
         + OpenAmountOf(opps, id, i + 1)

StageCountOf(opps, id, stage) ==
    Cardinality({i \in 1..Len(opps) : opps[i].AccountId = id /\ opps[i].StageName = stage})

\* C13: in the merged list every CRM account's pipeline_value is the sum of the
\* amounts of its opportunities that are neither Closed Won nor Closed Lost, its
\* closed_won and closed_lost are the numbers of its Closed Won and Closed Lost
\* opportunities, and an account without CRM record has pipeline_value 0
C13_PipelineSumsOpenOnly ==
    m_pc = "returned" =>
        \A i \in 1..Len(m_out) :
            IF \E k \in 1..Len(m_in.salesforce.accounts) :
                   m_in.salesforce.accounts[k].Name = m_out[i].account_name
            THEN \A k \in 1..Len(m_in.salesforce.accounts) :
                    m_in.salesforce.accounts[k].Name = m_out[i].account_name =>
                        LET id == m_in.salesforce.accounts[k].Id
                        IN  /\ m_out[i].pipeline_value = OpenAmountOf(opportunities, id, 1)
                            /\ m_out[i].closed_won = StageCountOf(opportunities, id, StageWon)
                            /\ m_out[i].closed_lost = StageCountOf(opportunities, id, StageLost)
            ELSE m_out[i].pipeline_value = 0

\* C13 witness: Acme has open opportunities of 100 and 40 and one Closed Won of 70;
\* its pipeline_value is 140 and the won one is counted in closed_won only
C13_Witness ==
    /\ m_pc = "returned"
    /\ opportunities = <<Opportunity("001", StageOpen, 100), Opportunity("001", StageWon, 70),
                         Opportunity("001", StageOpen, 40)>>
    /\ m_out[1].account_name = AcmeName
    /\ m_out[1].pipeline_value = 140
    /\ m_out[1].open_opportunities = 2
    /\ m_out[1].closed_won = 1
    /\ m_out[1].closed_lost = 0

\* ------------------------------------------------------------------------
\* filter_accounts (aggregator.py:305-356)
\* An AccountFilter is a record; None is NullInt for a number, NULL for a
\* text, "None" for the optional bool and NoList for the optional list.
\* ------------------------------------------------------------------------

\* industries = None
NoList == <<NULL>>

\* pat in s (Python substring test)
Contains(s, pat) == \E i \in 1..(Len(s) - Len(pat) + 1) : StartsWithAt(s, i, pat)

\* the characters of the data, in code point order
CharOrder == <<" ", ",", "-", ".", "0", "1", "2", "3", "4", "5", "6", "7", "8", "9", "@">>
             \o UpperAlpha \o LowerAlpha

Ord(c) == CHOOSE i \in 1..Len(CharOrder) : CharOrder[i] = c

\* s < t on Python strings: lexicographic by code point
TextLess(s, t) ==
    \E k \in 1..(Len(t)) :
        /\ \A j \in 1..(k - 1) : j <= Len(s) /\ s[j] = t[j]
        /\ \/ k = Len(s) + 1
           \/ k <= Len(s) /\ Ord(s[k]) < Ord(t[k])

\* lines 313-314
ApplyMinPipeline(list, f) ==
    IF f.min_pipeline # NullInt
    THEN SelectSeq(list, LAMBDA a : a.pipeline_value >= f.min_pipeline)
    ELSE list

\* lines 316-317
ApplyMaxPipeline(list, f) ==
    IF f.max_pipeline # NullInt
    THEN SelectSeq(list, LAMBDA a : a.pipeline_value <= f.max_pipeline)
    ELSE list

\* lines 319-320
ApplyMinContacts(list, f) ==
    IF f.min_contacts # NullInt
    THEN SelectSeq(list, LAMBDA a : a.total_contacts >= f.min_contacts)
    ELSE list

\* lines 322-326
ApplyHasOpenOpportunities(list, f) ==
    CASE f.has_open_opportunities = "True" ->
            SelectSeq(list, LAMBDA a : a.open_opportunities > 0)
      [] f.has_open_opportunities = "False" ->
            SelectSeq(list, LAMBDA a : a.open_opportunities = 0)
      [] OTHER -> list

\* ApplyIndustries that falls back to the whole list when nothing matches
ApplyIndustriesOrAll(list, f) ==
    IF f.industries # NoList /\ f.industries # <<>>
       /\ \E i \in 1..Len(list) : InList(list[i].industry, f.industries)
    THEN SelectSeq(list, LAMBDA a : InList(a.industry, f.industries))
    ELSE list

\* lines 328-329: None and the empty list are both falsy
ApplyIndustries(list, f) ==
    IF f.industries # NoList /\ f.industries # <<>>
    THEN SelectSeq(list, LAMBDA a : InList(a.industry, f.industries))
    ELSE list

\* lines 331-332
ApplyMinIntentScore(list, f) ==
    IF f.min_intent_score # NullInt
    THEN SelectSeq(list, LAMBDA a : NumOrZero(a.intent_score) >= f.min_intent_score)
    ELSE list

\* the search matching the account name only
MatchesSearchNameOnly(a, query) == Contains(Lower(a.account_name), query)

\* lines 336-337: the condition of the comprehension
MatchesSearch(a, query) ==
    \/ Contains(Lower(a.account_name), query)
    \/ \E d \in 1..Len(a.domains) : Contains(Lower(a.domains[d]), query)

\* lines 334-337
ApplySearch(list, f) ==
    IF Truthy(f.search_query)
    THEN SelectSeq(list, LAMBDA a : MatchesSearch(a, Lower(f.search_query)))
    ELSE list

\* a filter step that keeps accounts failing the has_open_opportunities test
ApplyPredicatesSkippingOpen(list, f) ==
    ApplySearch(ApplyMinIntentScore(ApplyIndustries(
        ApplyMinContacts(ApplyMaxPipeline(ApplyMinPipeline(list, f), f), f), f), f), f)

\* lines 311-337: the predicates in the order of the code
ApplyPredicates(list, f) ==
    ApplySearch(ApplyMinIntentScore(ApplyIndustries(ApplyHasOpenOpportunities(
        ApplyMinContacts(ApplyMaxPipeline(ApplyMinPipeline(list, f), f), f), f), f), f), f)

\* the keys of the sort_key dict (lines 341-348)
SortKeys == {"pipeline_value", "total_contacts", "website_sessions", "form_submissions",
             "account_name", "linkedin_total_impressions"}

\* .get(filters.sort_by, lambda a: a.pipeline_value)
EffectiveSortKey(f) == IF f.sort_by \in SortKeys THEN f.sort_by ELSE "pipeline_value"

\* sort_key(a) < sort_key(b)
KeyLess(a, b, key) ==
    IF key = "account_name"
    THEN TextLess(Lower(a.account_name), Lower(b.account_name))
    ELSE a[key] < b[key]

\* IsReverse with the two directions exchanged
IsReverseInverted(f) == f.sort_order = "asc"

\* line 340: reverse = filters.sort_order == 'desc'
IsReverse(f) == f.sort_order = "desc"

\* x goes before e in the requested direction
Precedes(x, e, key, reverse) == IF reverse THEN KeyLess(e, x, key) ELSE KeyLess(x, e, key)

\* stable insertion: x is placed after every element it does not precede
InsertSorted(acc, x, key, reverse) ==
    LET k == Cardinality({i \in 1..Len(acc) : ~Precedes(x, acc[i], key, reverse)})
    IN  SubSeq(acc, 1, k) \o <<x>> \o SubSeq(acc, k + 1, Len(acc))

RECURSIVE SortFrom(_, _, _, _, _)
SortFrom(list, i, acc, key, reverse) ==
    IF i > Len(list) THEN acc
    ELSE SortFrom(list, i + 1, InsertSorted(acc, list[i], key, reverse), key, reverse)

\* line 350: sorted(filtered, key=sort_key, reverse=reverse), a stable sort
Sorted(list, f) == SortFrom(list, 1, <<>>, EffectiveSortKey(f), IsReverse(f))

\* a slice bound as Python clamps it: negative counts from the end
ClampIndex(i, n) ==
    IF i < 0 THEN (IF n + i < 0 THEN 0 ELSE n + i)
    ELSE (IF i > n THEN n ELSE i)

\* list[start:end]
PySlice(list, start, end) ==
    LET s == ClampIndex(start, Len(list))
        e == ClampIndex(end, Len(list))
    IN  IF s < e THEN SubSeq(list, s + 1, e) ELSE <<>>

\* Paginate whose slice ends one element late
PaginateInclusiveEnd(list, f) ==
    PySlice(list, (f.page - 1) * f.page_size, (f.page - 1) * f.page_size + f.page_size + 1)

\* lines 353-356
Paginate(list, f) ==
    PySlice(list, (f.page - 1) * f.page_size, (f.page - 1) * f.page_size + f.page_size)

\* line 311 binds filtered to the caller's list; every predicate step that runs
\* rebinds it to a new list, so at line 350 filtered is still the caller's list
\* exactly when no predicate step ran
StillCallersList(f) ==
    /\ f.min_pipeline = NullInt
    /\ f.max_pipeline = NullInt
    /\ f.min_contacts = NullInt
    /\ f.has_open_opportunities = "None"
    /\ (f.industries = NoList \/ f.industries = <<>>)
    /\ f.min_intent_score = NullInt
    /\ ~Truthy(f.search_query)

\* the caller's list after a filter_accounts that sorts with filtered.sort(...)
CallersListSortedInPlace(accounts, f) ==
    IF StillCallersList(f) THEN Sorted(accounts, f) ELSE accounts

\* the caller's list after filter_accounts: the comprehensions (lines 314-337),
\* sorted() (line 350) and the slice (line 356) each build a new list, and no
\* account is assigned to
CallersList(accounts, f) == accounts

\* filter_accounts: the list after the predicates, after the sort, the page
\* returned, and the caller's list as the call leaves it
FilterAccounts(accounts, f) ==
    [filtered |-> ApplyPredicates(accounts, f),
     sorted |-> Sorted(ApplyPredicates(accounts, f), f),
     result |-> Paginate(Sorted(ApplyPredicates(accounts, f), f), f),
     accounts |-> CallersList(accounts, f)]

\* ------------------------------------------------------------------------
\* The account routes (routers/accounts.py:24-106)
\* ------------------------------------------------------------------------

\* the part of s after its first sep
AfterFirst(s, sep) == SubSeq(s, Len(BeforeFirst(s, sep)) + 2, Len(s))

\* str.split(sep)
RECURSIVE SplitOn(_, _)
SplitOn(s, sep) ==
    IF \E i \in 1..Len(s) : s[i] = sep
    THEN <<BeforeFirst(s, sep)>> \o SplitOn(AfterFirst(s, sep), sep)
    ELSE <<s>>

\* lines 43-57: the AccountFilter built from the query parameters
BuildFilters(params) ==
    [min_pipeline |-> params.min_pipeline,
     max_pipeline |-> params.max_pipeline,
     min_contacts |-> params.min_contacts,
     has_open_opportunities |-> params.has_open_opportunities,
     industries |-> IF Truthy(params.industries) THEN SplitOn(params.industries, ",")
                    ELSE NoList,
     min_intent_score |-> NullInt,
     search_query |-> params.search,
     sort_by |-> params.sort_by,
     sort_order |-> params.sort_order,
     page |-> params.page,
     page_size |-> params.page_size]

RECURSIVE SumField(_, _, _)
SumField(list, field, i) ==
    IF i > Len(list) THEN 0 ELSE list[i][field] + SumField(list, field, i + 1)

\* Summary taken over the page that is returned
SummaryOfPage(all_accounts, page_accounts) ==
    [total_accounts |-> Len(page_accounts),
     total_pipeline |-> SumField(page_accounts, "pipeline_value", 1),
     total_contacts |-> SumField(page_accounts, "total_contacts", 1),
     total_sfdc_contacts |-> SumField(page_accounts, "sfdc_contacts", 1),
     total_hubspot_contacts |-> SumField(page_accounts, "hubspot_contacts", 1),
     total_website_sessions |-> SumField(page_accounts, "website_sessions", 1),
     total_form_submissions |-> SumField(page_accounts, "form_submissions", 1),
     accounts_with_open_opportunities |->
         Len(SelectSeq(page_accounts, LAMBDA a : a.open_opportunities > 0))]

\* lines 63-70 and 79-88: the summary dict of the listing
Summary(all_accounts, page_accounts) ==
    [total_accounts |-> Len(all_accounts),
     total_pipeline |-> SumField(all_accounts, "pipeline_value", 1),
     total_contacts |-> SumField(all_accounts, "total_contacts", 1),
     total_sfdc_contacts |-> SumField(all_accounts, "sfdc_contacts", 1),
     total_hubspot_contacts |-> SumField(all_accounts, "hubspot_contacts", 1),
     total_website_sessions |-> SumField(all_accounts, "website_sessions", 1),
     total_form_submissions |-> SumField(all_accounts, "form_submissions", 1),
     accounts_with_open_opportunities |->
         Len(SelectSeq(all_accounts, LAMBDA a : a.open_opportunities > 0))]

\* get_accounts (lines 42-89) on the aggregated list all_accounts
GetAccountsResponse(all_accounts, params) ==
    LET filters == BuildFilters(params)
        filtered_accounts == FilterAccounts(all_accounts, filters).result
    IN  [kind |-> "list",
         accounts |-> filtered_accounts,
         total_count |-> Len(all_accounts),
         summary |-> Summary(all_accounts, filtered_accounts)]

\* the lookup comparing the names as they are written
NameMatchesExactly(account, account_name) == account.account_name = account_name

\* line 103
NameMatches(account, account_name) == Lower(account.account_name) = Lower(account_name)

\* get_account_detail (lines 102-106): the first match, or HTTP 404
GetAccountDetailResponse(all_accounts, account_name) ==
    IF \E i \in 1..Len(all_accounts) : NameMatches(all_accounts[i], account_name)
    THEN [kind |-> "detail", status |-> 200,
          account |-> <<all_accounts[CHOOSE i \in 1..Len(all_accounts) :
                          /\ NameMatches(all_accounts[i], account_name)
                          /\ \A j \in 1..(i - 1) :
                                ~NameMatches(all_accounts[j], account_name)]>>]
    ELSE [kind |-> "detail", status |-> 404, account |-> <<>>]

\* ------------------------------------------------------------------------
\* Queries on an aggregated list
\* ------------------------------------------------------------------------

\* longest aggregated list drawn from AccountPool
MaxAccounts == 3

\* highest page asked for
MaxPage == 4

NameAcmeInc == <<"A","c","m","e"," ","I","n","c">>

NameAcmeIncLower == <<"a","c","m","e"," ","i","n","c">>

NameWidgets == <<"W","i","d","g","e","t","s">>

NameOther == <<"O","t","h","e","r">>

NameBeta == <<"b","e","t","a">>

NameBetaUpper == <<"B","E","T","A">>

DomAcmeCom == <<"a","c","m","e",".","c","o","m">>

DomWidgetsCom == <<"w","i","d","g","e","t","s",".","c","o","m">>

DomMyAcmeNet == <<"m","y","a","c","m","e",".","n","e","t">>

IndustriesTech == <<"T","e","c","h">>

IndustriesRetTech == <<"R","e","t",",","T","e","c","h">>

\* an AccountEngagement (models/account.py:77-117) as the merge builds it
Account(name, domains, sfdc, hubspot, sessions, submissions, open, pipeline, industry, intent, linkedin) ==
    [ account_name |-> name,
      domains |-> domains,
      sfdc_contacts |-> sfdc,
      hubspot_contacts |-> hubspot,
      total_contacts |-> sfdc + hubspot,
      linkedin_organic_impressions |-> 0,
      linkedin_ad_impressions |-> 0,
      linkedin_total_impressions |-> linkedin,
      website_sessions |-> sessions,
      website_page_views |-> sessions,
      form_submissions |-> submissions,
      current_opportunities |-> open,
      closed_won |-> 0,
      closed_lost |-> 0,
      open_opportunities |-> open,
      pipeline_value |-> pipeline,
      industry |-> industry,
      employee_count |-> NullInt,
      annual_revenue |-> NullInt,
      intent_score |-> intent ]

AcctAcmeInc ==
    Account(NameAcmeInc, <<DomAcmeCom>>, 2, 4, 5, 2, 1, 100, TechIndustry, NullInt, 0)

AcctWidgets ==
    Account(NameWidgets, <<DomWidgetsCom>>, 0, 0, 9, 0, 0, 0, RetailIndustry, 70, 12)

AcctOther ==
    Account(NameOther, <<DomMyAcmeNet>>, 3, 0, 0, 5, 2, 100, NULL, 30, 0)

AcctBeta ==
    Account(NameBeta, <<>>, 1, 0, 5, 1, 1, 250, TechIndustry, 0, 3)

AccountPool == {AcctAcmeInc, AcctWidgets, AcctOther, AcctBeta}

Digits == <<"0", "1", "2", "3", "4", "5", "6", "7", "8", "9">>

\* the k-th account of a long list: named n01, n02, ..., pipeline_value k
NumberedAccount(k) ==
    Account(<<"n", Digits[(k \div 10) + 1], Digits[(k % 10) + 1]>>, <<>>, 0, 0, 0, 0, 0, k,
            NULL, NullInt, 0)

\* a 25-account list, in descending order of pipeline_value
LongList == [k \in 1..25 |-> NumberedAccount(26 - k)]

\* aggregated lists: accounts have distinct names
AccountLists ==
    {l \in BoundedSeq(AccountPool, MaxAccounts) :
        \A i, j \in 1..Len(l) : i # j => l[i] # l[j]}
    \cup {LongList}

\* AccountFilter() with every field at its default (models/account.py:147-159)
DefaultFilter ==
    [min_pipeline |-> NullInt, max_pipeline |-> NullInt, min_contacts |-> NullInt,
     has_open_opportunities |-> "None", industries |-> NoList,
     min_intent_score |-> NullInt, search_query |-> NULL,
     sort_by |-> "pipeline_value", sort_order |-> "desc", page |-> 1, page_size |-> 50]

PredicateFilters ==
    {[DefaultFilter EXCEPT !.min_pipeline = a, !.max_pipeline = b, !.min_contacts = c,
                           !.has_open_opportunities = d, !.industries = e,
                           !.min_intent_score = g, !.search_query = h] :
        a \in {NullInt, 100}, b \in {NullInt, 100}, c \in {NullInt, 3},
        d \in {"None", "True", "False"},
        e \in {NoList, <<>>, <<TechIndustry>>, <<RetailIndustry, TechIndustry>>},
        g \in {NullInt, 0, 30}, h \in {NULL, AcmeUpperName}}

SortFilters ==
    {[DefaultFilter EXCEPT !.sort_by = k, !.sort_order = o] :
        k \in SortKeys \cup {"bogus"}, o \in {"asc", "desc"}}

PageFilters ==
    {[DefaultFilter EXCEPT !.sort_order = "asc", !.page = p, !.page_size = z] :
        p \in 1..MaxPage, z \in {1, 2, 10}}

\* page numbers below the first page, which AccountFilter accepts
\* (models/account.py:158 declares page: int = 1 with no lower bound)
LowPages == {0 - 1, 0}

LowPageFilters ==
    {[DefaultFilter EXCEPT !.sort_order = "asc", !.page = p, !.page_size = z] :
        p \in LowPages, z \in {1, 2, 10}}

MixedFilters ==
    {[DefaultFilter EXCEPT !.has_open_opportunities = d, !.search_query = h,
                           !.sort_by = "account_name", !.sort_order = o,
                           !.page = p, !.page_size = 2] :
        d \in {"None", "True"}, h \in {<<>>, AcmeLowerName}, o \in {"asc", "desc"},
        p \in 1..2}

\* the query parameters of GET /accounts/ (lines 26-36); page >= 1, 1 <= page_size <= 100
ListParams ==
    [search : {NULL, AcmeLowerName},
     min_pipeline : {NullInt, 100},
     max_pipeline : {NullInt},
     min_contacts : {NullInt, 3},
     has_open_opportunities : {"None", "True"},
     industries : {NULL, <<>>, IndustriesTech, IndustriesRetTech},
     sort_by : {"pipeline_value", "account_name"},
     sort_order : {"desc"},
     page : {1, 2},
     page_size : {1, 50}]

DetailNames == {NameAcmeInc, NameAcmeIncLower, AcmeName, NameWidgets, NameBetaUpper,
                <<"n", "0", "7">>, <<"N", "9", "9">>}

Requests ==
    {[kind |-> "filter", filters |-> f] :
        f \in PredicateFilters \cup SortFilters \cup PageFilters \cup LowPageFilters
              \cup MixedFilters}
    \cup {[kind |-> "list", params |-> p] : p \in ListParams}
    \cup {[kind |-> "detail", account_name |-> n] : n \in DetailNames}
    \cup {[kind |-> "stats"]}

\* get_summary_stats (routers/accounts.py:202-232) on the aggregated list; the
\* average is kept as a fraction
GetSummaryStatsResponse(all_accounts) ==
    [kind |-> "stats",
     total_accounts |-> Len(all_accounts),
     total_pipeline |-> SumField(all_accounts, "pipeline_value", 1),
     total_contacts |-> SumField(all_accounts, "total_contacts", 1),
     total_website_sessions |-> SumField(all_accounts, "website_sessions", 1),
     total_form_submissions |-> SumField(all_accounts, "form_submissions", 1),
     accounts_with_open_opportunities |->
         Len(SelectSeq(all_accounts, LAMBDA a : a.open_opportunities > 0)),
     total_open_opportunities |-> SumField(all_accounts, "open_opportunities", 1),
     total_closed_won |-> SumField(all_accounts, "closed_won", 1),
     total_closed_lost |-> SumField(all_accounts, "closed_lost", 1),
     avg_contacts_per_account |->
         IF Len(all_accounts) > 0
         THEN [num |-> SumField(all_accounts, "total_contacts", 1), den |-> Len(all_accounts)]
         ELSE [num |-> 0, den |-> 1]]

\* an aggregated list and one query about to be made on it
InitQuery ==
    /\ Constructed
    /\ world = 1
    /\ outage = {}
    /\ MergeIdle
    /\ CrmIdle
    /\ q_accounts \in AccountLists
    /\ q_request \in Requests
    /\ q_response = [kind |-> "none"]

\* aggregator.filter_accounts(q_accounts, filters)
FilterAccountsCall ==
    /\ q_request.kind = "filter"
    /\ q_response.kind = "none"
    /\ q_response' = [kind |-> "filter",
                      filtered |-> FilterAccounts(q_accounts, q_request.filters).filtered,
                      sorted |-> FilterAccounts(q_accounts, q_request.filters).sorted,
                      result |-> FilterAccounts(q_accounts, q_request.filters).result]
    /\ q_accounts' = FilterAccounts(q_accounts, q_request.filters).accounts
    /\ UNCHANGED q_request
    /\ UNCHANGED <<aggVars, mergeVars, crmVars>>

\* GET /accounts/ once aggregate_account_data has returned q_accounts
GetAccounts ==
    /\ q_request.kind = "list"
    /\ q_response.kind = "none"
    /\ q_response' = GetAccountsResponse(q_accounts, q_request.params)
    /\ q_accounts' = FilterAccounts(q_accounts, BuildFilters(q_request.params)).accounts
    /\ UNCHANGED q_request
    /\ UNCHANGED <<aggVars, mergeVars, crmVars>>

\* GET /accounts/{account_name} once aggregate_account_data has returned q_accounts
GetAccountDetail ==
    /\ q_request.kind = "detail"
    /\ q_response.kind = "none"
    /\ q_response' = GetAccountDetailResponse(q_accounts, q_request.account_name)
    /\ UNCHANGED <<q_accounts, q_request>>
    /\ UNCHANGED <<aggVars, mergeVars, crmVars>>

\* GET /accounts/summary/stats once aggregate_account_data has returned
\* q_accounts: the sums read the list and write nothing
GetSummaryStats ==
    /\ q_request.kind = "stats"
    /\ q_response.kind = "none"
    /\ q_response' = GetSummaryStatsResponse(q_accounts)
    /\ UNCHANGED <<q_accounts, q_request>>
    /\ UNCHANGED <<aggVars, mergeVars, crmVars>>

NextQuery ==
    \/ FilterAccountsCall
    \/ GetAccounts
    \/ GetAccountDetail
    \/ GetSummaryStats

SpecQuery == InitQuery /\ [][NextQuery]_vars

\* the model's sort produces an ordered rearrangement of its input
SortedIsPermutation ==
    q_response.kind = "filter" =>
        /\ Len(q_response.sorted) = Len(q_response.filtered)
        /\ \A i \in 1..Len(q_response.filtered) :
              InList(q_response.filtered[i], q_response.sorted)

\* ------------------------------------------------------------------------
\* Claims about the queries
\* ------------------------------------------------------------------------

\* elements lo..hi of a list, by position (empty when hi < lo)
ElementsFromTo(list, lo, hi) ==
    [i \in 1..(IF hi >= lo THEN hi - lo + 1 ELSE 0) |-> list[lo + i - 1]]

\* C14: for page >= 1 and page_size >= 1, filter_accounts returns exactly the
\* elements at positions (page-1)*page_size+1 .. min(page*page_size, n) of the
\* filtered-then-sorted list of length n, and the empty list when
\* (page-1)*page_size >= n.
C14_PageIsSliceOfSorted ==
    (q_response.kind = "filter" /\ q_request.filters.page >= 1
                                /\ q_request.filters.page_size >= 1) =>
        LET f == q_request.filters
            n == Len(q_response.sorted)
            lo == (f.page - 1) * f.page_size + 1
            hi == IF f.page * f.page_size < n THEN f.page * f.page_size ELSE n
        IN /\ q_response.result = ElementsFromTo(q_response.sorted, lo, hi)
           /\ ((f.page - 1) * f.page_size >= n => q_response.result = <<>>)

\* page 3 of 25 accounts, ten to a page, holds the five accounts 21..25
C14_Witness ==
    /\ q_response.kind = "filter"
    /\ q_accounts = LongList
    /\ q_request.filters.page = 3
    /\ q_request.filters.page_size = 10
    /\ Len(q_response.sorted) = 25
    /\ Len(q_response.result) = 5
    /\ q_response.result[1] = NumberedAccount(21)
    /\ q_response.result[5] = NumberedAccount(25)

\* query occurs in the text s, by position
OccursIn(query, s) ==
    \E i \in 0..(Len(s) - Len(query)) :
        \A j \in 1..Len(query) : s[i + j] = query[j]

\* account a satisfies every predicate of f that was supplied; whether a list
\* of industries was supplied is the caller's reading, industriesSupplied
SatisfiesSupplied(a, f, industriesSupplied) ==
    /\ f.min_pipeline # NullInt => a.pipeline_value >= f.min_pipeline
    /\ f.max_pipeline # NullInt => a.pipeline_value <= f.max_pipeline
    /\ f.min_contacts # NullInt => a.total_contacts >= f.min_contacts
    /\ f.has_open_opportunities = "True" => a.open_opportunities > 0
    /\ f.has_open_opportunities = "False" => a.open_opportunities = 0
    /\ industriesSupplied =>
          \E i \in 1..Len(f.industries) : f.industries[i] = a.industry
    /\ f.min_intent_score # NullInt =>
          (IF a.intent_score = NullInt THEN 0 ELSE a.intent_score) >= f.min_intent_score
    /\ f.search_query # NULL =>
          \/ OccursIn(Lower(f.search_query), Lower(a.account_name))
          \/ \E d \in 1..Len(a.domains) : OccursIn(Lower(f.search_query), Lower(a.domains[d]))

\* C15 as stated: before pagination an account is kept if and only if it
\* satisfies every predicate that was supplied, an industries list of any
\* length counting as supplied; an omitted predicate excludes nothing.
C15_Original ==
    q_response.kind = "filter" =>
        q_response.filtered =
            SelectSeq(q_accounts,
                      LAMBDA a : SatisfiesSupplied(a, q_request.filters,
                                                   q_request.filters.industries # NoList))

\* C15, amended: before pagination an account is kept if and only if it
\* satisfies every predicate that was supplied, where an empty industries
\* list counts as omitted; an omitted predicate excludes nothing.
C15_KeptIffAllSuppliedHold ==
    q_response.kind = "filter" =>
        q_response.filtered =
            SelectSeq(q_accounts,
                      LAMBDA a : SatisfiesSupplied(a, q_request.filters,
                                                   /\ q_request.filters.industries # NoList
                                                   /\ q_request.filters.industries # <<>>))

\* an empty industries list with min_pipeline 100 and has_open_opportunities
\* true: some accounts are kept, some dropped
C15_Witness ==
    /\ q_response.kind = "filter"
    /\ q_request.filters.industries = <<>>
    /\ q_request.filters.min_pipeline = 100
    /\ q_request.filters.has_open_opportunities = "True"
    /\ Len(q_accounts) = 3
    /\ Len(q_response.filtered) = 2

\* the predicate steps of filter_accounts applied in the opposite order
PredicatesInReverseOrder(list, f) ==
    ApplyMinPipeline(ApplyMaxPipeline(ApplyMinContacts(ApplyHasOpenOpportunities(
        ApplyIndustries(ApplyMinIntentScore(ApplySearch(list, f), f), f), f), f), f), f)

\* C16: the accounts that pass do not depend on the order of the predicates:
\* min_pipeline then industries gives the same accounts as industries then
\* min_pipeline, and the code's order gives the same accounts as the
\* opposite order of all predicates.
C16_PredicateOrderIrrelevant ==
    q_response.kind = "filter" =>
        LET f == q_request.filters
        IN /\ ApplyIndustries(ApplyMinPipeline(q_accounts, f), f)
                = ApplyMinPipeline(ApplyIndustries(q_accounts, f), f)
           /\ q_response.filtered = PredicatesInReverseOrder(q_accounts, f)

\* min_pipeline and industries both supplied, each excluding a different
\* account, one account passing both
C16_Witness ==
    /\ q_response.kind = "filter"
    /\ q_request.filters =
          [DefaultFilter EXCEPT !.min_pipeline = 100,
                                !.industries = <<RetailIndustry, TechIndustry>>]
    /\ q_accounts = <<AcctAcmeInc, AcctWidgets, AcctOther>>
    /\ ApplyMinPipeline(q_accounts, q_request.filters) = <<AcctAcmeInc, AcctOther>>
    /\ ApplyIndustries(q_accounts, q_request.filters) = <<AcctAcmeInc, AcctWidgets>>
    /\ q_response.filtered = <<AcctAcmeInc>>

\* the key the claim names for a sort_by value
ClaimedSortKey(sort_by) ==
    IF sort_by \in {"pipeline_value", "total_contacts", "website_sessions",
                    "form_submissions", "account_name", "linkedin_total_impressions"}
    THEN sort_by
    ELSE "pipeline_value"

\* the key of a is not greater than the key of b
KeyNotGreater(a, b, key) ==
    IF key = "account_name"
    THEN ~TextLess(Lower(b.account_name), Lower(a.account_name))
    ELSE a[key] <= b[key]

\* C17: before pagination the filtered list is ordered by the selected sort
\* key (account_name lowercased), non-increasing for 'desc' and non-decreasing
\* for 'asc'; a sort_by outside the six keys orders by pipeline_value. The
\* sorted list holds the filtered accounts, each once.
C17_OrderedBySortKey ==
    q_response.kind = "filter" =>
        LET f == q_request.filters
            s == q_response.sorted
            key == ClaimedSortKey(f.sort_by)
        IN /\ Len(s) = Len(q_response.filtered)
           /\ \A i \in 1..Len(s) : InList(q_response.filtered[i], s)
           /\ f.sort_order = "desc" =>
                 \A i \in 1..(Len(s) - 1) : KeyNotGreater(s[i + 1], s[i], key)
           /\ f.sort_order = "asc" =>
                 \A i \in 1..(Len(s) - 1) : KeyNotGreater(s[i], s[i + 1], key)

\* an unknown sort_by, descending: three accounts reordered by pipeline_value
C17_Witness ==
    /\ q_response.kind = "filter"
    /\ q_request.filters.sort_by = "bogus"
    /\ q_request.filters.sort_order = "desc"
    /\ q_response.filtered = <<AcctWidgets, AcctBeta, AcctAcmeInc>>
    /\ q_response.sorted = <<AcctBeta, AcctAcmeInc, AcctWidgets>>

\* the lowercased query occurs in the lowercased name or in a lowercased domain
SearchHit(a, query) ==
    \/ OccursIn(Lower(query), Lower(a.account_name))
    \/ \E d \in 1..Len(a.domains) : OccursIn(Lower(query), Lower(a.domains[d]))

\* no predicate other than search_query is supplied
OnlySearchSupplied(f) ==
    /\ f.min_pipeline = NullInt
    /\ f.max_pipeline = NullInt
    /\ f.min_contacts = NullInt
    /\ f.has_open_opportunities = "None"
    /\ f.industries = NoList
    /\ f.min_intent_score = NullInt

\* C18: with a search_query, filter_accounts keeps exactly the accounts for
\* which the lowercased query is a substring of the lowercased account name or
\* of a lowercased owned domain: "acme" keeps "Acme Inc" and the account whose
\* only domain is myacme.net, and drops "Widgets" with widgets.com.
C18_SearchKeepsNameOrDomainHits ==
    (q_response.kind = "filter" /\ q_request.filters.search_query # NULL) =>
        LET f == q_request.filters
        IN /\ \A i \in 1..Len(q_response.filtered) :
                 SearchHit(q_response.filtered[i], f.search_query)
           /\ OnlySearchSupplied(f) =>
                 q_response.filtered =
                     SelectSeq(q_accounts, LAMBDA a : SearchHit(a, f.search_query))
           /\ (OnlySearchSupplied(f) /\ Lower(f.search_query) = AcmeLowerName) =>
                 /\ InList(AcctAcmeInc, q_accounts) =>
                       InList(AcctAcmeInc, q_response.filtered)
                 /\ InList(AcctOther, q_accounts) =>
                       InList(AcctOther, q_response.filtered)
                 /\ ~InList(AcctWidgets, q_response.filtered)

\* the three accounts of the example, searched for "ACME"
C18_Witness ==
    /\ q_response.kind = "filter"
    /\ q_request.filters = [DefaultFilter EXCEPT !.search_query = AcmeUpperName]
    /\ q_accounts = <<AcctWidgets, AcctOther, AcctAcmeInc>>
    /\ q_response.filtered = <<AcctOther, AcctAcmeInc>>

RECURSIVE TotalOfFirst(_, _, _)
\* the total of a field over the first n accounts of a list
TotalOfFirst(list, field, n) ==
    IF n = 0 THEN 0 ELSE TotalOfFirst(list, field, n - 1) + list[n][field]

\* how many accounts of a list have an open opportunity
WithOpenOpportunities(list) ==
    Cardinality({i \in 1..Len(list) : list[i].open_opportunities > 0})

\* C19: in the response of the listing, total_count and every summary
\* aggregate are taken over the full unfiltered aggregated list, whatever the
\* filter, sort and page of the request.
C19_SummaryOverFullList ==
    q_response.kind = "list" =>
        LET n == Len(q_accounts)
            s == q_response.summary
        IN /\ q_response.total_count = n
           /\ s.total_accounts = n
           /\ s.total_pipeline = TotalOfFirst(q_accounts, "pipeline_value", n)
           /\ s.total_contacts = TotalOfFirst(q_accounts, "total_contacts", n)
           /\ s.total_sfdc_contacts = TotalOfFirst(q_accounts, "sfdc_contacts", n)
           /\ s.total_hubspot_contacts = TotalOfFirst(q_accounts, "hubspot_contacts", n)
           /\ s.total_website_sessions = TotalOfFirst(q_accounts, "website_sessions", n)
           /\ s.total_form_submissions = TotalOfFirst(q_accounts, "form_submissions", n)
           /\ s.accounts_with_open_opportunities = WithOpenOpportunities(q_accounts)

\* a listing of three accounts filtered and paged down to one account
C19_Witness ==
    /\ q_response.kind = "list"
    /\ q_accounts = <<AcctAcmeInc, AcctWidgets, AcctBeta>>
    /\ q_request.params.min_pipeline = 100
    /\ q_request.params.page_size = 1
    /\ q_request.params.page = 2
    /\ q_response.accounts = <<AcctAcmeInc>>
    /\ q_response.total_count = 3
    /\ q_response.summary.total_pipeline = 350
    /\ q_response.summary.total_contacts = 7
    /\ q_response.summary.accounts_with_open_opportunities = 2

\* positions of the aggregated list whose name equals name ignoring case
PositionsNamed(name) ==
    {i \in 1..Len(q_accounts) : Lower(q_accounts[i].account_name) = Lower(name)}

\* C20: the detail lookup returns an account if and only if the aggregated
\* list holds an account whose name equals the requested name ignoring case,
\* and returns that account; when none matches the outcome is 404 and no
\* account is returned.
C20_DetailFoundIffNameMatches ==
    q_response.kind = "detail" =>
        /\ q_response.status \in {200, 404}
        /\ q_response.status = 200 <=> PositionsNamed(q_request.account_name) # {}
        /\ q_response.status = 200 =>
              /\ Len(q_response.account) = 1
              /\ \E i \in PositionsNamed(q_request.account_name) :
                    q_response.account[1] = q_accounts[i]
        /\ q_response.status = 404 => q_response.account = <<>>

\* "acme inc" finds the account named "Acme Inc", second in the list
C20_Witness ==
    /\ q_response.kind = "detail"
    /\ q_request.account_name = NameAcmeIncLower
    /\ Len(q_accounts) = 3
    /\ q_accounts[2] = AcctAcmeInc
    /\ q_response.status = 200
    /\ q_response.account = <<AcctAcmeInc>>

\* ------------------------------------------------------------------------
\* Claims about date ranges and the cache
\* ------------------------------------------------------------------------

\* C21: the cache is not keyed by date range: while a result computed for one
\* range is cached and inside its TTL window, a call without force_refresh
\* that passes a different range returns the cached result and starts no
\* fetch.
C21_CacheIgnoresDateRange ==
    [][\A dates \in DateRanges :
          (/\ AggregateAccountData("A", FALSE, dates)
           /\ InWindow
           /\ cache.aggregated.fetched_for # EffectiveDates(dates, now))
          => /\ last_return'.path = "hit"
             /\ last_return'.outcome = "returned"
             /\ last_return'.result = cache.aggregated
             /\ last_return'.result.fetched_for # EffectiveDates(dates, now)
             /\ runs' = runs
             /\ call' = call
             /\ cache' = cache]_vars

\* a call asking for days 200..207 was served the result fetched for days 100..130
C21_Witness ==
    /\ last_return.path = "hit"
    /\ last_return.outcome = "returned"
    /\ last_return.asked = [start_date |-> 200, end_date |-> 207]
    /\ last_return.result.fetched_for = [start_date |-> 100, end_date |-> 130]
    /\ last_return.result.accounts # <<>>
    /\ call["A"].pc = "idle"

\* ------------------------------------------------------------------------
\* Further properties of the merge (SpecMerge)
\* ------------------------------------------------------------------------

\* d is the text after the last '@' of email (all of it when it has no '@')
IsEmailDomain(email, d) ==
    /\ \A j \in 1..Len(d) : d[j] # "@"
    /\ Len(d) <= Len(email)
    /\ \A j \in 1..Len(d) : email[Len(email) - Len(d) + j] = d[j]
    /\ \/ Len(d) = Len(email)
       \/ email[Len(email) - Len(d)] = "@"

\* the submissions that carry an email whose domain is one of domains
SubmissionsOf(domains) ==
    {k \in 1..Len(m_in.hubspot.form_submissions) :
        LET email == m_in.hubspot.form_submissions[k]
        IN  /\ email # NULL
            /\ email # <<>>
            /\ \E d \in 1..Len(domains) : IsEmailDomain(email, domains[d])}

\* C22: after a merge each account's form_submissions is the number of form
\* submissions with an email whose domain (the text after the last '@') is one
\* of the account's domains; other submissions add nothing to it.
C22_FormSubmissionsCountOwnedDomains ==
    m_pc = "returned" =>
        \A i \in 1..Len(m_out) :
            m_out[i].form_submissions = Cardinality(SubmissionsOf(m_out[i].domains))

\* j@a.co and k@a.io both count for the account owning a.co and a.io, and
\* neither for the other account
C22_Witness ==
    /\ m_pc = "returned"
    /\ m_in.hubspot.form_submissions = <<MailJaneACo, MailKimAIo>>
    /\ Len(m_out) = 2
    /\ m_out[1].domains = <<DomACo, DomAIo>>
    /\ m_out[1].form_submissions = 2
    /\ m_out[2].domains # <<>>
    /\ m_out[2].form_submissions = 0

\* the key is the lowercased name of a CRM account handed to the merge
CrmSeeded(key) ==
    \E a \in 1..Len(m_in.salesforce.accounts) :
        /\ m_in.salesforce.accounts[a].Name \notin {NULL, ABSENT}
        /\ Lower(m_in.salesforce.accounts[a].Name) = key

NoDuplicates(list) ==
    \A i, j \in 1..Len(list) : list[i] = list[j] => i = j

ExampleWebsite ==
    <<"h","t","t","p","s",":","/","/","w","w","w",".","a","c","m","e",".","c","o","m",
      "/","h","o","m","e">>

\* C23: when a HubSpot company has the lowercased name of a CRM-seeded account,
\* its domain is appended after the domains the account has if and only if it
\* is non-empty and not already present; the list keeps the CRM domain first
\* and holds no duplicate. The website https://www.acme.com/home gives the
\* CRM domain acme.com.
C23_HubspotDomainAppendedOnce ==
    [][(/\ m_pc = "hubspot"
        /\ m_i <= Len(m_in.hubspot.companies)
        /\ m_pc' = "hubspot")
       => LET company == m_in.hubspot.companies[m_i]
              name == IF company.name = ABSENT THEN Unknown ELSE company.name
              d == company.domain
          IN  /\ SfdcDomains(ExampleWebsite) = <<DomAcmeCom>>
              /\ \A i \in 1..Len(m_st.map) :
                    (m_st.map[i].key = Lower(name) /\ CrmSeeded(Lower(name))) =>
                        LET old == m_st.map[i].account.domains
                            new == m_st'.map[i].account.domains
                        IN  /\ new = IF d \notin {NULL, ABSENT, <<>>} /\ ~InList(d, old)
                                     THEN old \o <<d>>
                                     ELSE old
                            /\ NoDuplicates(new)]_vars

\* the CRM website https://www.a.co/h and the HubSpot domain a.io of the same
\* company give the domains a.co, a.io in that order
C23_Witness ==
    /\ m_pc = "returned"
    /\ m_in.salesforce.accounts = <<SfdcAcme>>
    /\ m_in.hubspot.companies = <<HubAcme>>
    /\ SfdcAcme.Website = AcmeWebsite
    /\ HubAcme.domain = DomAIo
    /\ Len(m_out) = 1
    /\ m_out[1].domains = <<DomACo, DomAIo>>

\* the CRM accounts, and the HubSpot companies, handed to the merge under a key
CrmRecordsOf(key) ==
    {a \in 1..Len(m_in.salesforce.accounts) :
        /\ m_in.salesforce.accounts[a].Name \notin {NULL, ABSENT}
        /\ Lower(m_in.salesforce.accounts[a].Name) = key}

HubspotRecordsOf(key) ==
    {h \in 1..Len(m_in.hubspot.companies) :
        /\ m_in.hubspot.companies[h].name \notin {NULL, ABSENT}
        /\ Lower(m_in.hubspot.companies[h].name) = key}

\* first writer wins, later sources fill gaps: merged is the first source's
\* value when it set one, and the later source's value when only that one did
FirstWriterWins(merged, first, later, none) ==
    /\ first # none => merged = first
    /\ (first = none /\ later # none) => merged = later

\* C24: for a company present in both the CRM and HubSpot under one lowercased
\* name, industry, employee_count and annual_revenue of the merged record are
\* the CRM value when the CRM set it and the HubSpot value otherwise.
C24_EnrichmentFirstWriterLaterFillsGaps ==
    m_pc = "returned" =>
        \A i \in 1..Len(m_out) :
            LET key == Lower(m_out[i].account_name)
            IN  (Cardinality(CrmRecordsOf(key)) = 1 /\ Cardinality(HubspotRecordsOf(key)) = 1) =>
                    LET crm == m_in.salesforce.accounts[CHOOSE a \in CrmRecordsOf(key) : TRUE]
                        hub == m_in.hubspot.companies[CHOOSE h \in HubspotRecordsOf(key) : TRUE]
                    IN  /\ FirstWriterWins(m_out[i].industry,
                                           IF crm.Industry = ABSENT THEN NULL ELSE crm.Industry,
                                           IF hub.industry = ABSENT THEN NULL ELSE hub.industry,
                                           NULL)
                        /\ FirstWriterWins(m_out[i].employee_count, crm.NumberOfEmployees,
                                           hub.numberofemployees, NullInt)
                        /\ FirstWriterWins(m_out[i].annual_revenue, crm.AnnualRevenue,
                                           hub.annualrevenue, NullInt)

\* positions of a domains list whose domain is a key of the Factors session map
SessionHits(domains) ==
    {k \in 1..Len(domains) : domains[k] \in DOMAIN m_in.factors.sessions}

\* C25: website_sessions and website_page_views of each account are those of
\* the first of its domains, in list order, that is a key of the Factors
\* session map; the other domains add nothing, and an account with no domain
\* in the map keeps 0.
C25_SessionsOfFirstKnownDomain ==
    m_pc = "returned" =>
        \A i \in 1..Len(m_out) :
            LET hits == SessionHits(m_out[i].domains)
            IN  IF hits = {}
                THEN /\ m_out[i].website_sessions = 0
                     /\ m_out[i].website_page_views = 0
                ELSE LET first == CHOOSE k \in hits : \A j \in hits : k <= j
                         metrics == m_in.factors.sessions[m_out[i].domains[first]]
                     IN  /\ m_out[i].website_sessions = metrics.sessions
                         /\ m_out[i].website_page_views = metrics.page_views

\* a.co and a.io both have sessions; the account owning both, a.co first,
\* carries those of a.co alone, and an account without a known domain has 0
C25_Witness ==
    /\ m_pc = "returned"
    /\ m_in.factors.sessions = SessionsACo @@ SessionsAIoWIo
    /\ Len(m_out) = 2
    /\ m_out[1].domains = <<DomACo, DomAIo>>
    /\ m_out[1].website_sessions = 5
    /\ m_out[1].website_page_views = 9
    /\ SessionHits(m_out[2].domains) = {}
    /\ m_out[2].website_sessions = 0

\* C26: whatever the LinkedIn provider returns, every account of the merge
\* result has linkedin_organic_impressions, linkedin_ad_impressions and
\* linkedin_total_impressions equal to 0.
C26_LinkedinFieldsStayZero ==
    m_pc = "returned" =>
        \A i \in 1..Len(m_out) :
            /\ m_out[i].linkedin_organic_impressions = 0
            /\ m_out[i].linkedin_ad_impressions = 0
            /\ m_out[i].linkedin_total_impressions = 0

\* LinkedIn reported 15 organic and 7 ad impressions; the three returned
\* accounts carry none of them
C26_Witness ==
    /\ m_pc = "returned"
    /\ TotalOrganicImpressions(m_in.linkedin) = 15
    /\ TotalAdImpressions(m_in.linkedin) = 7
    /\ Len(m_out) = 3
    /\ \A i \in 1..3 : m_out[i].linkedin_total_impressions = 0
    /\ \A i \in 1..3 : m_out[i].linkedin_organic_impressions = 0
    /\ \A i \in 1..3 : m_out[i].linkedin_ad_impressions = 0

\* ------------------------------------------------------------------------
\* The aggregated list under queries
\* ------------------------------------------------------------------------

\* C27: no query operation (filter_accounts with any filter, sort and page, the
\* listing, the detail lookup, the summary) changes the aggregated account
\* list, its order, or a field of one of its accounts.
C27_QueriesLeaveListUnchanged ==
    [][q_accounts' = q_accounts]_vars

\* filter_accounts without predicates has returned the list reordered by name,
\* and the aggregated list is in the order it had
C27_Witness ==
    /\ q_response.kind = "filter"
    /\ StillCallersList(q_request.filters)
    /\ q_request.filters.sort_by = "account_name"
    /\ q_request.filters.sort_order = "asc"
    /\ q_accounts = <<AcctWidgets, AcctBeta, AcctAcmeInc>>
    /\ q_response.result = <<AcctAcmeInc, AcctBeta, AcctWidgets>>

\* ------------------------------------------------------------------------
\* The cache under interleaved calls (SpecRace)
\* ------------------------------------------------------------------------

\* C28: at every point where a coroutine can be suspended, under every
\* interleaving of aggregate_account_data and invalidate_cache calls, the
\* cache holds an 'aggregated' entry if and only if the cache timestamp is set.
C28_EntryIffTimestamp ==
    cache.has_aggregated <=> cache_timestamp # NoTimestamp

\* one call has written the entry and the timestamp together while the other
\* call, started later, is still fetching
C28_Witness ==
    /\ call["A"].pc = "gather"
    /\ call["B"].pc = "idle"
    /\ cache.has_aggregated
    /\ cache_timestamp # NoTimestamp
    /\ cache.aggregated.oid = 1
    /\ last_return.outcome = "returned"
    /\ call["A"].run = 2

\* C29: once invalidate_cache has returned, no later call without
\* force_refresh is served a result whose provider fetches began before that
\* invalidation.
C29_NoPreInvalidationResultServed ==
    last_return.path = "hit" => ~last_return.result.overtaken

\* ------------------------------------------------------------------------
\* Pages outside the filtered list (SpecQuery)

\* C30: filter_accounts returns an empty list for every page number outside
\* the pages of the filtered list, page values below 1 included, and for
\* page_size >= 1 never returns more than page_size accounts.
C30_OutsidePagesEmptyAtMostPageSize ==
    (q_response.kind = "filter" /\ q_request.filters.page_size >= 1) =>
        LET f == q_request.filters
            n == Len(q_response.sorted)
        IN  /\ (f.page < 1 \/ (f.page - 1) * f.page_size >= n) => q_response.result = <<>>
            /\ Len(q_response.result) <= f.page_size

====
